---- MODULE Spec2Model ----
(***************************************************************************)
(* Model of the collaboration signalling relay in src/server.mjs: the      *)
(* connection registry, the public and LAN room stores, join negotiation,  *)
(* message relay and the close handler, plus the configuration that gates  *)
(* room:create.                                                            *)
(*                                                                         *)
(* Representation.  A JS Map of rooms is a sequence of entries in          *)
(* insertion order (each entry carries its key).  A JS Set of member ids   *)
(* or of sockets is a TLA+ set; the order in which one handler sends its   *)
(* messages is therefore not kept, and the messages one handler hands to   *)
(* socket.send are a bag (sent).  Strings that the code takes apart        *)
(* (addresses) are sequences of one-character strings; all other strings   *)
(* are opaque.  A message field that is missing is the value Absent.       *)
(***************************************************************************)
EXTENDS Naturals, Integers, Sequences, FiniteSets, Bags, TLC

(* ---------------------------------------------------------------- bounds *)
MaxSockets == 3

Sockets == 1..MaxSockets
ClientIds == {"a", "b"}
\* Room ids are strings of IdLength digits drawn from Digits (the code: 16 of 0..9).
IdLength == 2
Digits == {"0", "1"}
\* Public rooms the model lets exist at once when the configuration sets no limit.
MaxPublicRooms == 2

Absent == "<absent>"
Undefined == "<undefined>"
NoDraw == [roomId |-> << >>, fallback |-> FALSE]
NoSocket == MaxSockets + 1

(* ----------------------------------------------------- program constants *)
ROOM_ID_ATTEMPTS == 8
DEFAULT_MAX_ROOMS == 100
MAX_ROOMS_CAP == 10000

(* ------------------------------------------------------- string helpers *)
\* "203.0.113.5" is <<"2","0","3",".","0",".","1","1","3",".","5">>.
startsWith(s, p) == Len(s) >= Len(p) /\ SubSeq(s, 1, Len(p)) = p

slice(s, n) == SubSeq(s, n + 1, Len(s))

includes(s, c) == \E i \in 1..Len(s) : s[i] = c

RECURSIVE split(_, _)
split(s, sep) ==
  IF ~ includes(s, sep) THEN << s >>
  ELSE LET i == CHOOSE k \in 1..Len(s) : s[k] = sep /\ \A j \in 1..(k - 1) : s[j] # sep
       IN  << SubSeq(s, 1, i - 1) >> \o split(SubSeq(s, i + 1, Len(s)), sep)

RECURSIVE join(_, _)
join(parts, sep) ==
  IF Len(parts) = 0 THEN << >>
  ELSE IF Len(parts) = 1 THEN parts[1]
  ELSE parts[1] \o << sep >> \o join(Tail(parts), sep)

RECURSIVE trim(_)
trim(s) ==
  IF s = << >> THEN s
  ELSE IF Head(s) = " " THEN trim(Tail(s))
  ELSE IF s[Len(s)] = " " THEN trim(SubSeq(s, 1, Len(s) - 1))
  ELSE s

\* String.prototype.includes with a string argument.
includesString(s, q) ==
  \E i \in 0..(Len(s) - Len(q)) : SubSeq(s, i + 1, i + Len(q)) = q

take(s, n) == SubSeq(s, 1, IF Len(s) < n THEN Len(s) ELSE n)

V4_MAPPED_PREFIX == << ":", ":", "f", "f", "f", "f", ":" >>
UNKNOWN == << "u", "n", "k", "n", "o", "w", "n" >>

\* normalizeAddress that leaves the IPv4-mapped prefix in place.
normalizeAddressKeepingPrefix(address) == address

normalizeAddress(address) ==
  IF address = << >> THEN << >>
  ELSE IF startsWith(address, V4_MAPPED_PREFIX) THEN slice(address, Len(V4_MAPPED_PREFIX))
  ELSE address

networkKeyFromAddress(address) ==
  IF address = << >> THEN UNKNOWN
  ELSE LET normalized == normalizeAddress(address) IN
       IF includes(normalized, ":")
       THEN LET parts == SelectSeq(split(normalized, ":"), LAMBDA p : p # << >>)
                joined == join(take(parts, 4), ":")
            IN  IF joined # << >> THEN joined ELSE normalized
       ELSE LET segments == split(normalized, ".") IN
            IF Len(segments) = 4
            THEN join(<< segments[1], segments[2], segments[3] >>, ".")
            ELSE normalized

(* --------------------------------------------------------------- inputs *)
ADDR_10_0_0_5 == << "1", "0", ".", "0", ".", "0", ".", "5" >>
ADDR_10_0_1_7 == << "1", "0", ".", "0", ".", "1", ".", "7" >>
\* The octets of the dotted quads, and a dotted quad of four of them.
Octets == { << "1", "0" >>, << "0" >>, << "7" >> }
dottedQuad(a, b, c, d) == a \o << "." >> \o b \o << "." >> \o c \o << "." >> \o d
DottedQuads == { dottedQuad(a, b, c, d) : a \in Octets, b \in Octets, c \in Octets, d \in Octets }
\* No address, a host name, three and five dotted segments.
OtherAddresses ==
  { << >>,
    << "l", "o", "c", "a", "l", "h", "o", "s", "t" >>,
    << "1", "0", ".", "0", ".", "0" >>,
    << "1", "0", ".", "0", ".", "0", ".", "0", ".", "7" >> }
ADDR_LOOPBACK_V6 == << ":", ":", "1" >>
AddressInputs ==
  DottedQuads \cup { V4_MAPPED_PREFIX \o q : q \in DottedQuads }
    \cup OtherAddresses \cup { ADDR_LOOPBACK_V6 }
\* request.socket.remoteAddress of the connections the model opens.
PeerAddresses == { V4_MAPPED_PREFIX \o ADDR_10_0_0_5, ADDR_10_0_1_7 }

(* ---------------------------------------------------------------- state *)
VARIABLES
  readyState,        \* socket -> "NEW" | "OPEN" | "CLOSING" | "CLOSED"
  remoteAddress,     \* socket -> address (closure variable of the connection)
  networkKey,        \* socket -> key     (closure variable of the connection)
  clients,           \* Map socket -> {clientId, nickname, avatar, networkKey}
  clientsById,       \* Map clientId -> socket
  networkSockets,    \* Map networkKey -> Set of sockets
  lanRoomsByNetwork, \* Map networkKey -> Map roomId -> room
  publicRooms,       \* Map roomId -> room
  config,            \* {requireApiKey, apiKeys, maxRooms}
  sent,              \* bag of [to, msg]: what the last step handed to socket.send
  last               \* the event the last step handled

vars == << readyState, remoteAddress, networkKey, clients, clientsById,
           networkSockets, lanRoomsByNetwork, publicRooms, config, sent, last >>

(* ------------------------------------------------------------ JS Map ops *)
mapHas(m, k) == \E i \in 1..Len(m) : m[i].key = k

mapGet(m, k) == m[CHOOSE i \in 1..Len(m) : m[i].key = k]

mapSet(m, v) ==
  IF mapHas(m, v.key)
  THEN [i \in 1..Len(m) |-> IF m[i].key = v.key THEN v ELSE m[i]]
  ELSE Append(m, v)

mapDelete(m, k) == SelectSeq(m, LAMBDA e : e.key # k)

mapKeys(m) == { m[i].key : i \in 1..Len(m) }

fnDelete(f, k) == [x \in (DOMAIN f) \ {k} |-> f[x]]

fnSet(f, k, v) == [x \in (DOMAIN f) \cup {k} |-> IF x = k THEN v ELSE f[x]]

(* ------------------------------------------------- handler-local state *)
\* What a handler reads and writes: the five module-level Maps, the sockets'
\* readyState, and the messages handed to socket.send so far.
Here ==
  [ readyState |-> readyState, clients |-> clients, clientsById |-> clientsById,
    networkSockets |-> networkSockets, lanRoomsByNetwork |-> lanRoomsByNetwork,
    publicRooms |-> publicRooms, sent |-> EmptyBag ]

safeSend(st, socket, message) ==
  IF st.readyState[socket] = "OPEN"
  THEN [st EXCEPT !.sent = @ (+) SetToBag({[to |-> socket, msg |-> message]})]
  ELSE st

lanMap(st, key) ==
  IF key \in DOMAIN st.lanRoomsByNetwork THEN st.lanRoomsByNetwork[key] ELSE << >>

\* getLanShareList that also lists the LAN rooms of another network key.
getLanShareListOfTwoNetworks(st, key) ==
  LET others == (DOMAIN st.lanRoomsByNetwork) \ {key}
      map == IF others = {} THEN lanMap(st, key)
             ELSE lanMap(st, key) \o st.lanRoomsByNetwork[CHOOSE k \in others : TRUE]
  IN  [i \in 1..Len(map) |-> map[i].meta]

getLanShareList(st, key) ==
  LET map == lanMap(st, key) IN [i \in 1..Len(map) |-> map[i].meta]

RECURSIVE sendToSockets(_, _, _)
sendToSockets(st, sockets, message) ==
  IF sockets = {} THEN st
  ELSE LET s == CHOOSE x \in sockets : TRUE
       IN  sendToSockets(safeSend(st, s, message), sockets \ {s}, message)

broadcastShareList(st, key) ==
  IF key \notin DOMAIN st.networkSockets THEN st
  ELSE sendToSockets(st, st.networkSockets[key],
                     [type |-> "share:list", shares |-> getLanShareList(st, key)])

\* room.members.forEach(memberId => { const s = clientsById.get(memberId); if (s) safeSend(s, message) })
RECURSIVE sendToMembers(_, _, _)
sendToMembers(st, members, message) ==
  IF members = {} THEN st
  ELSE LET m == CHOOSE x \in members : TRUE
           st1 == IF m \in DOMAIN st.clientsById
                  THEN safeSend(st, st.clientsById[m], message)
                  ELSE st
       IN  sendToMembers(st1, members \ {m}, message)

\* removePublicRoom deleting the room without telling its members.
removePublicRoomUnannounced(st, roomId) ==
  IF ~ mapHas(st.publicRooms, roomId) THEN st
  ELSE [st EXCEPT !.publicRooms = mapDelete(@, roomId)]

removePublicRoom(st, roomId) ==
  IF ~ mapHas(st.publicRooms, roomId) THEN st
  ELSE LET room == mapGet(st.publicRooms, roomId)
           st1 == sendToMembers(st, room.members, [type |-> "room:closed", roomId |-> roomId])
       IN  [st1 EXCEPT !.publicRooms = mapDelete(@, roomId)]

\* removeLanRoom without the share:list broadcast.
removeLanRoomUnlisted(st, roomId, key) ==
  IF key \notin DOMAIN st.lanRoomsByNetwork THEN st
  ELSE IF ~ mapHas(st.lanRoomsByNetwork[key], roomId) THEN st
  ELSE LET room == mapGet(st.lanRoomsByNetwork[key], roomId)
           st1 == sendToMembers(st, room.members, [type |-> "room:closed", roomId |-> roomId])
       IN  [st1 EXCEPT !.lanRoomsByNetwork[key] = mapDelete(@, roomId)]

removeLanRoom(st, roomId, key) ==
  IF key \notin DOMAIN st.lanRoomsByNetwork THEN st
  ELSE IF ~ mapHas(st.lanRoomsByNetwork[key], roomId) THEN st
  ELSE LET room == mapGet(st.lanRoomsByNetwork[key], roomId)
           st1 == sendToMembers(st, room.members, [type |-> "room:closed", roomId |-> roomId])
           st2 == [st1 EXCEPT !.lanRoomsByNetwork[key] = mapDelete(@, roomId)]
       IN  broadcastShareList(st2, key)

\* A reference to a stored room object: which store, which network, which key.
NoRoom == [kind |-> "none", networkKey |-> << >>, roomId |-> << >>]

findLanRoom(st, roomId, key) ==
  IF key \in DOMAIN st.lanRoomsByNetwork /\ mapHas(st.lanRoomsByNetwork[key], roomId)
  THEN [kind |-> "lan", networkKey |-> key, roomId |-> roomId]
  ELSE NoRoom

\* findRoom looking in the LAN store before the public store.
findRoomLanFirst(st, roomId, key) ==
  IF findLanRoom(st, roomId, key) # NoRoom THEN findLanRoom(st, roomId, key)
  ELSE IF mapHas(st.publicRooms, roomId)
  THEN [kind |-> "public", networkKey |-> << >>, roomId |-> roomId]
  ELSE NoRoom

findRoom(st, roomId, key) ==
  IF mapHas(st.publicRooms, roomId)
  THEN [kind |-> "public", networkKey |-> << >>, roomId |-> roomId]
  ELSE findLanRoom(st, roomId, key)

roomOf(st, ref) ==
  IF ref.kind = "public" THEN mapGet(st.publicRooms, ref.roomId)
  ELSE mapGet(st.lanRoomsByNetwork[ref.networkKey], ref.roomId)

setMembers(st, ref, members) ==
  LET room == [roomOf(st, ref) EXCEPT !.members = members] IN
  IF ref.kind = "public"
  THEN [st EXCEPT !.publicRooms = mapSet(@, room)]
  ELSE [st EXCEPT !.lanRoomsByNetwork[ref.networkKey] = mapSet(@, room)]

handleMemberLeave(st, ref, roomId, clientId) ==
  LET room == roomOf(st, ref) IN
  IF clientId \notin room.members THEN st
  ELSE safeSend(setMembers(st, ref, room.members \ {clientId}), room.hostSocket,
                [type |-> "room:member-left", roomId |-> roomId, clientId |-> clientId])

RECURSIVE flatten(_, _)
flatten(f, keys) ==
  IF keys = {} THEN << >>
  ELSE LET k == CHOOSE x \in keys : TRUE IN f[k] \o flatten(f, keys \ {k})

\* The matches of one store, in the store's order: { kind, roomId, networkKey }.
lanEntries(hits, key) ==
  [i \in 1..Len(hits) |-> [kind |-> "lan", roomId |-> hits[i].key, networkKey |-> key]]

publicEntries(hits) ==
  [i \in 1..Len(hits) |-> [kind |-> "public", roomId |-> hits[i].key, networkKey |-> << >>]]

findLanRoomsByHostSocket(st, socket) ==
  flatten([k \in DOMAIN st.lanRoomsByNetwork |->
             lanEntries(SelectSeq(st.lanRoomsByNetwork[k],
                                  LAMBDA room : room.hostSocket = socket), k)],
          DOMAIN st.lanRoomsByNetwork)

findPublicRoomsByHostSocket(st, socket) ==
  publicEntries(SelectSeq(st.publicRooms, LAMBDA room : room.hostSocket = socket))

findRoomsByMember(st, clientId) ==
  publicEntries(SelectSeq(st.publicRooms, LAMBDA room : clientId \in room.members))
  \o flatten([k \in DOMAIN st.lanRoomsByNetwork |->
                lanEntries(SelectSeq(st.lanRoomsByNetwork[k],
                                     LAMBDA room : clientId \in room.members), k)],
             DOMAIN st.lanRoomsByNetwork)

(* ------------------------------------------------------ room id generation *)
RECURSIVE idsOfLength(_)
idsOfLength(n) ==
  IF n = 0 THEN { << >> }
  ELSE { << d >> \o t : d \in Digits, t \in idsOfLength(n - 1) }

\* Every value crypto.randomBytes(ROOM_ID_LENGTH) can map to, and every value the
\* timestamp fallback can take.
IdSpace == idsOfLength(IdLength)

\* The values generateRoomId() can return when every random candidate and the
\* timestamp string lie in ids, each with whether it is the timestamp fallback.
\* An attempt returns its candidate when no public room has it; the next attempt
\* runs only after a candidate that some room has.
RECURSIVE generateRoomIdFrom(_, _, _)
generateRoomIdFrom(rooms, ids, attempt) ==
  IF attempt < ROOM_ID_ATTEMPTS
  THEN { [roomId |-> c, fallback |-> FALSE] : c \in { x \in ids : ~ mapHas(rooms, x) } }
       \cup (IF \E c \in ids : mapHas(rooms, c)
             THEN generateRoomIdFrom(rooms, ids, attempt + 1)
             ELSE {})
  ELSE { [roomId |-> t, fallback |-> TRUE] : t \in ids }

\* generateRoomId returning its first candidate without looking it up.
generateRoomIdUnchecked(rooms, ids) == { [roomId |-> c, fallback |-> FALSE] : c \in ids }

generateRoomId(rooms, ids) == generateRoomIdFrom(rooms, ids, 0)

(* ------------------------------------------------------------ conversions *)
\* String(v ?? '') on an opaque string field.
str(v) == IF v = Absent THEN "" ELSE v

\* typeof v === 'string' ? v : undefined
strOrUndefined(v) == IF v = Absent THEN Undefined ELSE v

\* message.permission === 'viewer' ? 'viewer' : 'editor'
permissionOf(v) == IF v = "viewer" THEN "viewer" ELSE "editor"

\* message.visibility === 'private' ? 'private' : 'public'
visibilityOf(v) == IF v = "private" THEN "private" ELSE "public"

\* Date.now(): the clock is not modelled, every reading is this opaque value.
NOW == "now"

(* ----------------------------------------------------- message handlers *)
onHello(st, socket, message) ==
  LET clientId == str(message.clientId) IN
  IF clientId = "" THEN st
  ELSE LET nickname == IF message.nickname # Absent THEN message.nickname ELSE ""
           avatar == strOrUndefined(message.avatar)
           record == [clientId |-> clientId, nickname |-> nickname, avatar |-> avatar,
                      networkKey |-> networkKey[socket]]
           st1 == [st EXCEPT !.clients = fnSet(@, socket, record),
                             !.clientsById = fnSet(@, clientId, socket)]
       IN  safeSend(st1, socket,
                    [type |-> "share:list", shares |-> getLanShareList(st1, networkKey[socket])])

\* profile:update without the check that the clientId is the profile's own.
onProfileUpdateOfAnyId(st, socket, message) ==
  IF socket \notin DOMAIN st.clients THEN st
  ELSE LET record == st.clients[socket]
           nickname == IF message.nickname # Absent THEN message.nickname ELSE record.nickname
           avatar == IF message.avatar # Absent THEN message.avatar ELSE record.avatar
       IN  [st EXCEPT !.clients = fnSet(@, socket,
              [record EXCEPT !.nickname = nickname, !.avatar = avatar])]

onProfileUpdate(st, socket, message) ==
  LET clientId == str(message.clientId) IN
  IF socket \notin DOMAIN st.clients THEN st
  ELSE LET record == st.clients[socket] IN
       IF record.clientId # clientId THEN st
       ELSE LET nickname == IF message.nickname # Absent THEN message.nickname ELSE record.nickname
                avatar == IF message.avatar # Absent THEN message.avatar ELSE record.avatar
            IN  [st EXCEPT !.clients = fnSet(@, socket,
                   [record EXCEPT !.nickname = nickname, !.avatar = avatar])]

\* share:announce that starts every announced room with no members.
onShareAnnounceFreshMembers(st, socket, message) ==
  LET roomId == message.roomId
      hostId == str(message.hostId)
  IN
  IF roomId = << >> \/ hostId = "" THEN st
  ELSE LET meta == [roomId |-> roomId, hostId |-> hostId,
                    projectId |-> str(message.projectId), name |-> str(message.name),
                    appVersion |-> str(message.appVersion),
                    requiresPassword |-> message.requiresPassword,
                    ownerNickname |-> str(message.ownerNickname),
                    permission |-> permissionOf(message.permission),
                    visibility |-> visibilityOf(message.visibility),
                    address |-> IF remoteAddress[socket] # << >>
                                THEN remoteAddress[socket] ELSE message.address,
                    updatedAt |-> NOW]
           key == networkKey[socket]
           map == lanMap(st, key)
           members == {}
           room == [key |-> roomId, hostId |-> hostId, hostSocket |-> socket,
                    meta |-> meta, members |-> members]
           st1 == [st EXCEPT !.lanRoomsByNetwork = fnSet(@, key, mapSet(map, room))]
       IN  broadcastShareList(st1, key)

onShareAnnounce(st, socket, message) ==
  LET roomId == message.roomId
      hostId == str(message.hostId)
  IN
  IF roomId = << >> \/ hostId = "" THEN st
  ELSE LET meta == [roomId |-> roomId, hostId |-> hostId,
                    projectId |-> str(message.projectId), name |-> str(message.name),
                    appVersion |-> str(message.appVersion),
                    requiresPassword |-> message.requiresPassword,
                    ownerNickname |-> str(message.ownerNickname),
                    permission |-> permissionOf(message.permission),
                    visibility |-> visibilityOf(message.visibility),
                    address |-> IF remoteAddress[socket] # << >>
                                THEN remoteAddress[socket] ELSE message.address,
                    updatedAt |-> NOW]
           key == networkKey[socket]
           map == lanMap(st, key)
           members == IF mapHas(map, roomId) THEN mapGet(map, roomId).members ELSE {}
           room == [key |-> roomId, hostId |-> hostId, hostSocket |-> socket,
                    meta |-> meta, members |-> members]
           st1 == [st EXCEPT !.lanRoomsByNetwork = fnSet(@, key, mapSet(map, room))]
       IN  broadcastShareList(st1, key)

\* share:remove that looks at the LAN rooms only.
onShareRemoveLanOnly(st, socket, message) ==
  LET roomId == message.roomId IN
  IF roomId = << >> THEN st
  ELSE LET lanRoom == findLanRoom(st, roomId, networkKey[socket]) IN
       IF lanRoom # NoRoom /\ roomOf(st, lanRoom).hostSocket = socket
       THEN removeLanRoom(st, roomId, networkKey[socket])
       ELSE st

onShareRemove(st, socket, message) ==
  LET roomId == message.roomId IN
  IF roomId = << >> THEN st
  ELSE IF mapHas(st.publicRooms, roomId) /\ mapGet(st.publicRooms, roomId).hostSocket = socket
  THEN removePublicRoom(st, roomId)
  ELSE LET lanRoom == findLanRoom(st, roomId, networkKey[socket]) IN
       IF lanRoom # NoRoom /\ roomOf(st, lanRoom).hostSocket = socket
       THEN removeLanRoom(st, roomId, networkKey[socket])
       ELSE st

\* room:create without the API key gate.
roomCreateRejectionNoKeyGate(st, socket, message, cfg) ==
  IF socket \notin DOMAIN st.clients THEN "silent"
  ELSE IF st.clients[socket].clientId # str(message.clientId) THEN "silent"
  ELSE IF cfg.maxRooms > 0 /\ Len(st.publicRooms) >= cfg.maxRooms THEN "room_limit"
  ELSE "none"

\* room:create testing the room limit before the API key.
roomCreateRejectionLimitFirst(st, socket, message, cfg) ==
  IF socket \notin DOMAIN st.clients THEN "silent"
  ELSE IF st.clients[socket].clientId # str(message.clientId) THEN "silent"
  ELSE IF cfg.maxRooms > 0 /\ Len(st.publicRooms) >= cfg.maxRooms THEN "room_limit"
  ELSE IF cfg.requireApiKey
          /\ (trim(message.apiKey) = << >> \/ trim(message.apiKey) \notin cfg.apiKeys)
  THEN "api_key_required"
  ELSE "none"

\* room:create comparing the room count with > instead of >=.
roomCreateRejectionOffByOne(st, socket, message, cfg) ==
  IF socket \notin DOMAIN st.clients THEN "silent"
  ELSE IF st.clients[socket].clientId # str(message.clientId) THEN "silent"
  ELSE IF cfg.requireApiKey
          /\ (trim(message.apiKey) = << >> \/ trim(message.apiKey) \notin cfg.apiKeys)
  THEN "api_key_required"
  ELSE IF cfg.maxRooms > 0 /\ Len(st.publicRooms) > cfg.maxRooms THEN "room_limit"
  ELSE "none"

\* room:create without the room limit.
roomCreateRejectionNoLimit(st, socket, message, cfg) ==
  IF socket \notin DOMAIN st.clients THEN "silent"
  ELSE IF st.clients[socket].clientId # str(message.clientId) THEN "silent"
  ELSE IF cfg.requireApiKey
          /\ (trim(message.apiKey) = << >> \/ trim(message.apiKey) \notin cfg.apiKeys)
  THEN "api_key_required"
  ELSE "none"

\* The early returns of room:create, in order: "silent" (no profile, or another
\* clientId), "api_key_required", "room_limit", or "none" when the room is created.
roomCreateRejection(st, socket, message, cfg) ==
  IF socket \notin DOMAIN st.clients THEN "silent"
  ELSE IF st.clients[socket].clientId # str(message.clientId) THEN "silent"
  ELSE IF cfg.requireApiKey
          /\ LET apiKey == trim(message.apiKey)
             IN  apiKey = << >> \/ apiKey \notin cfg.apiKeys
  THEN "api_key_required"
  ELSE IF cfg.maxRooms > 0 /\ Len(st.publicRooms) >= cfg.maxRooms
  THEN "room_limit"
  ELSE "none"

\* draw is what generateRoomId() returns when the handler gets to call it.
onRoomCreate(st, socket, message, cfg, draw) ==
  LET clientId == str(message.clientId)
      rejection == roomCreateRejection(st, socket, message, cfg)
  IN
  IF rejection = "silent" THEN st
  ELSE IF rejection = "api_key_required"
  THEN safeSend(st, socket, [type |-> "room:error", reason |-> "api_key_required",
                             message |-> "API key required"])
  ELSE IF rejection = "room_limit"
  THEN safeSend(st, socket, [type |-> "room:error", reason |-> "room_limit",
                             message |-> "Room limit reached"])
  ELSE LET roomId == draw.roomId
           meta == [roomId |-> roomId, name |-> str(message.name),
                    requiresPassword |-> message.requiresPassword,
                    permission |-> permissionOf(message.permission),
                    visibility |-> visibilityOf(message.visibility),
                    appVersion |-> str(message.appVersion)]
           room == [key |-> roomId, hostId |-> clientId, hostSocket |-> socket,
                    meta |-> meta, members |-> {}]
           st1 == [st EXCEPT !.publicRooms = mapSet(@, room)]
       IN  safeSend(st1, socket, [type |-> "room:created", roomId |-> roomId])

\* The filter of room:list letting a private room through on a partial match.
roomListFilterPrivateByPart(room, query) ==
  IF query = << >> THEN room.meta.visibility # "private"
  ELSE includesString(room.meta.roomId, query) \/ room.meta.roomId = query

\* The filter of room:list matching the query at the start of the id only.
roomListFilterPrefix(room, query) ==
  IF query = << >> THEN room.meta.visibility # "private"
  ELSE LET matches == startsWith(room.meta.roomId, query) \/ room.meta.roomId = query IN
       IF ~ matches THEN FALSE
       ELSE IF room.meta.visibility # "private" THEN TRUE
       ELSE room.meta.roomId = query

roomListFilter(room, query) ==
  IF query = << >> THEN room.meta.visibility # "private"
  ELSE LET matches == includesString(room.meta.roomId, query) \/ room.meta.roomId = query IN
       IF ~ matches THEN FALSE
       ELSE IF room.meta.visibility # "private" THEN TRUE
       ELSE room.meta.roomId = query

roomListRooms(rooms, query) ==
  LET kept == SelectSeq(rooms, LAMBDA room : roomListFilter(room, query))
  IN  [i \in 1..Len(kept) |-> kept[i].meta]

onRoomList(st, socket, message) ==
  LET query == IF "query" \in DOMAIN message THEN trim(message.query) ELSE << >> IN
  safeSend(st, socket, [type |-> "room:list", rooms |-> roomListRooms(st.publicRooms, query),
                        query |-> query])

onJoinRequest(st, socket, message) ==
  LET roomId == message.roomId
      clientId == str(message.clientId)
  IN
  IF roomId = << >> \/ clientId = "" THEN st
  ELSE LET resolved == findRoom(st, roomId, networkKey[socket]) IN
       IF resolved = NoRoom
       THEN safeSend(st, socket, [type |-> "join:denied", roomId |-> roomId, reason |-> "not_found"])
       ELSE safeSend(st, roomOf(st, resolved).hostSocket,
                     [type |-> "join:request", roomId |-> roomId, clientId |-> clientId,
                      nickname |-> str(message.nickname),
                      avatar |-> strOrUndefined(message.avatar),
                      password |-> strOrUndefined(message.password),
                      requestId |-> str(message.requestId)])

\* join:approve without the check that the sender is the room's host.
onJoinApproveByAnyone(st, socket, message) ==
  LET roomId == message.roomId
      clientId == str(message.clientId)
  IN
  IF roomId = << >> \/ clientId = "" THEN st
  ELSE LET resolved == findRoom(st, roomId, networkKey[socket]) IN
       IF resolved = NoRoom THEN st
       ELSE LET room == roomOf(st, resolved)
                st1 == setMembers(st, resolved, room.members \cup {clientId})
            IN  IF clientId \in DOMAIN st1.clientsById
                THEN safeSend(st1, st1.clientsById[clientId],
                              [type |-> "join:approved", roomId |-> roomId,
                               hostId |-> room.hostId,
                               permission |-> IF message.permission = Absent
                                              THEN "editor" ELSE message.permission])
                ELSE st1

\* join:approve adding the member only when a connection is registered under it.
onJoinApproveRegisteredOnly(st, socket, message) ==
  LET roomId == message.roomId
      clientId == str(message.clientId)
  IN
  IF roomId = << >> \/ clientId = "" THEN st
  ELSE LET resolved == findRoom(st, roomId, networkKey[socket]) IN
       IF resolved = NoRoom THEN st
       ELSE IF roomOf(st, resolved).hostSocket # socket THEN st
       ELSE LET room == roomOf(st, resolved) IN
            IF clientId \in DOMAIN st.clientsById
            THEN safeSend(setMembers(st, resolved, room.members \cup {clientId}),
                          st.clientsById[clientId],
                          [type |-> "join:approved", roomId |-> roomId,
                           hostId |-> room.hostId,
                           permission |-> IF message.permission = Absent
                                          THEN "editor" ELSE message.permission])
            ELSE st

onJoinApprove(st, socket, message) ==
  LET roomId == message.roomId
      clientId == str(message.clientId)
  IN
  IF roomId = << >> \/ clientId = "" THEN st
  ELSE LET resolved == findRoom(st, roomId, networkKey[socket]) IN
       IF resolved = NoRoom THEN st
       ELSE IF roomOf(st, resolved).hostSocket # socket THEN st
       ELSE LET room == roomOf(st, resolved)
                st1 == setMembers(st, resolved, room.members \cup {clientId})
            IN  IF clientId \in DOMAIN st1.clientsById
                THEN safeSend(st1, st1.clientsById[clientId],
                              [type |-> "join:approved", roomId |-> roomId,
                               hostId |-> room.hostId,
                               permission |-> IF message.permission = Absent
                                              THEN "editor" ELSE message.permission])
                ELSE st1

onJoinDeny(st, socket, message) ==
  LET roomId == message.roomId
      clientId == str(message.clientId)
  IN
  IF roomId = << >> \/ clientId = "" THEN st
  ELSE LET resolved == findRoom(st, roomId, networkKey[socket]) IN
       IF resolved = NoRoom THEN st
       ELSE IF roomOf(st, resolved).hostSocket # socket THEN st
       ELSE IF clientId \in DOMAIN st.clientsById
       THEN safeSend(st, st.clientsById[clientId],
                     [type |-> "join:denied", roomId |-> roomId, reason |-> str(message.reason)])
       ELSE st

\* client:message forwarded for a sender without a profile as well.
onClientMessageWithoutProfile(st, socket, message) ==
  LET roomId == message.roomId IN
  IF roomId = << >> THEN st
  ELSE LET resolved == findRoom(st, roomId, networkKey[socket]) IN
       IF resolved = NoRoom THEN st
       ELSE safeSend(st, roomOf(st, resolved).hostSocket,
                     [type |-> "client:message", roomId |-> roomId,
                      clientId |-> IF socket \in DOMAIN st.clients
                                   THEN st.clients[socket].clientId ELSE "",
                      payload |-> message.payload])

\* client:message forwarding the clientId the frame carries.
onClientMessageClaimedId(st, socket, message) ==
  LET roomId == message.roomId IN
  IF roomId = << >> THEN st
  ELSE LET resolved == findRoom(st, roomId, networkKey[socket]) IN
       IF resolved = NoRoom \/ socket \notin DOMAIN st.clients THEN st
       ELSE safeSend(st, roomOf(st, resolved).hostSocket,
                     [type |-> "client:message", roomId |-> roomId,
                      clientId |-> str(message.clientId), payload |-> message.payload])

onClientMessage(st, socket, message) ==
  LET roomId == message.roomId IN
  IF roomId = << >> THEN st
  ELSE LET resolved == findRoom(st, roomId, networkKey[socket]) IN
       IF resolved = NoRoom \/ socket \notin DOMAIN st.clients THEN st
       ELSE safeSend(st, roomOf(st, resolved).hostSocket,
                     [type |-> "client:message", roomId |-> roomId,
                      clientId |-> st.clients[socket].clientId, payload |-> message.payload])

\* room:message without the check that the sender is the room's host.
onRoomMessageByAnyone(st, socket, message) ==
  LET roomId == message.roomId IN
  IF roomId = << >> THEN st
  ELSE LET resolved == findRoom(st, roomId, networkKey[socket]) IN
       IF resolved = NoRoom THEN st
       ELSE LET targetId == message.targetId
                out == [type |-> "room:message", roomId |-> roomId, payload |-> message.payload]
            IN  IF targetId # Absent /\ targetId # ""
                THEN IF targetId \in DOMAIN st.clientsById
                     THEN safeSend(st, st.clientsById[targetId], out)
                     ELSE st
                ELSE sendToMembers(st, roomOf(st, resolved).members, out)

onRoomMessage(st, socket, message) ==
  LET roomId == message.roomId IN
  IF roomId = << >> THEN st
  ELSE LET resolved == findRoom(st, roomId, networkKey[socket]) IN
       IF resolved = NoRoom THEN st
       ELSE IF roomOf(st, resolved).hostSocket # socket THEN st
       ELSE LET targetId == message.targetId
                out == [type |-> "room:message", roomId |-> roomId, payload |-> message.payload]
            IN  IF targetId # Absent /\ targetId # ""
                THEN IF targetId \in DOMAIN st.clientsById
                     THEN safeSend(st, st.clientsById[targetId], out)
                     ELSE st
                ELSE sendToMembers(st, roomOf(st, resolved).members, out)

onRoomLeave(st, socket, message) ==
  LET roomId == message.roomId
      clientId == str(message.clientId)
  IN
  IF roomId = << >> \/ clientId = "" THEN st
  ELSE LET resolved == findRoom(st, roomId, networkKey[socket]) IN
       IF resolved = NoRoom THEN st
       ELSE handleMemberLeave(st, resolved, roomId, clientId)

\* room:close without the check that the sender is the room's host.
onRoomCloseByAnyone(st, socket, message) ==
  LET roomId == message.roomId IN
  IF roomId = << >> THEN st
  ELSE LET resolved == findRoom(st, roomId, networkKey[socket]) IN
       IF resolved = NoRoom THEN st
       ELSE IF resolved.kind = "public" THEN removePublicRoom(st, roomId)
       ELSE removeLanRoom(st, roomId, networkKey[socket])

onRoomClose(st, socket, message) ==
  LET roomId == message.roomId IN
  IF roomId = << >> THEN st
  ELSE LET resolved == findRoom(st, roomId, networkKey[socket]) IN
       IF resolved = NoRoom THEN st
       ELSE IF roomOf(st, resolved).hostSocket # socket THEN st
       ELSE IF resolved.kind = "public" THEN removePublicRoom(st, roomId)
       ELSE removeLanRoom(st, roomId, networkKey[socket])

\* JSON.parse throws, message.type is not a string, or the switch's default case.
\* A frame no handler takes answered with an error frame.
onOtherFrameAnswered(st, socket, message) == safeSend(st, socket, [type |-> "error"])

onOtherFrame(st, socket, message) == st

(* --------------------------------------------------------- close handler *)
RECURSIVE leaveEach(_, _, _, _)
leaveEach(st, entries, key, clientId) ==
  IF entries = << >> THEN st
  ELSE LET entry == Head(entries)
           resolved == findRoom(st, entry.roomId, key)
           st1 == IF resolved = NoRoom THEN st
                  ELSE handleMemberLeave(st, resolved, entry.roomId, clientId)
       IN  leaveEach(st1, Tail(entries), key, clientId)

RECURSIVE removeLanEach(_, _)
removeLanEach(st, entries) ==
  IF entries = << >> THEN st
  ELSE removeLanEach(removeLanRoom(st, Head(entries).roomId, Head(entries).networkKey),
                     Tail(entries))

RECURSIVE removePublicEach(_, _)
removePublicEach(st, entries) ==
  IF entries = << >> THEN st
  ELSE removePublicEach(removePublicRoom(st, Head(entries).roomId), Tail(entries))

\* The close handler deleting the by-id entry of its client id whoever holds it.
forgetClientWhoeverHoldsIt(st, socket) ==
  IF socket \notin DOMAIN st.clients THEN st
  ELSE LET record == st.clients[socket]
           st1 == [st EXCEPT !.clients = fnDelete(@, socket)]
           st2 == IF record.clientId \in DOMAIN st1.clientsById
                  THEN [st1 EXCEPT !.clientsById = fnDelete(@, record.clientId)]
                  ELSE st1
       IN  leaveEach(st2, findRoomsByMember(st2, record.clientId), networkKey[socket],
                     record.clientId)

forgetClient(st, socket) ==
  IF socket \notin DOMAIN st.clients THEN st
  ELSE LET record == st.clients[socket]
           st1 == [st EXCEPT !.clients = fnDelete(@, socket)]
           st2 == IF record.clientId \in DOMAIN st1.clientsById
                     /\ st1.clientsById[record.clientId] = socket
                  THEN [st1 EXCEPT !.clientsById = fnDelete(@, record.clientId)]
                  ELSE st1
       IN  leaveEach(st2, findRoomsByMember(st2, record.clientId), networkKey[socket],
                     record.clientId)

\* leaveNetwork that keeps a group that has become empty.
leaveNetworkKeepingEmpty(st, socket) ==
  LET key == networkKey[socket] IN
  IF key \notin DOMAIN st.networkSockets THEN st
  ELSE [st EXCEPT !.networkSockets[key] = st.networkSockets[key] \ {socket}]

leaveNetwork(st, socket) ==
  LET key == networkKey[socket] IN
  IF key \notin DOMAIN st.networkSockets THEN st
  ELSE LET networkSet == st.networkSockets[key] \ {socket} IN
       IF networkSet = {}
       THEN [st EXCEPT !.networkSockets = fnDelete(@, key)]
       ELSE [st EXCEPT !.networkSockets[key] = networkSet]

\* The close handler cleaning up only behind a connection that held a profile.
onCloseOfProfileOnly(st, socket) ==
  IF socket \notin DOMAIN st.clients THEN leaveNetwork(st, socket)
  ELSE LET st1 == forgetClient(st, socket)
           st2 == removeLanEach(st1, findLanRoomsByHostSocket(st1, socket))
           st3 == removePublicEach(st2, findPublicRoomsByHostSocket(st2, socket))
       IN  leaveNetwork(st3, socket)

onClose(st, socket) ==
  LET st1 == forgetClient(st, socket)
      st2 == removeLanEach(st1, findLanRoomsByHostSocket(st1, socket))
      st3 == removePublicEach(st2, findPublicRoomsByHostSocket(st2, socket))
  IN  leaveNetwork(st3, socket)

(* ---------------------------------------------------------- configuration *)
defaultConfig == [requireApiKey |-> FALSE, apiKeys |-> {}, maxRooms |-> DEFAULT_MAX_ROOMS]

\* A numeric JSON field is << n >>; a missing or non-numeric one is << >>.
isFinite(v) == v # << >>

clamp(n) == IF n < 0 THEN 0 ELSE IF n > MAX_ROOMS_CAP THEN MAX_ROOMS_CAP ELSE n

normalizeConfig(raw) ==
  [ requireApiKey |-> raw.requireApiKey,
    apiKeys |-> { trim(k) : k \in raw.apiKeys } \ { << >> },
    maxRooms |-> IF isFinite(raw.maxRooms) THEN clamp(raw.maxRooms[1]) ELSE defaultConfig.maxRooms ]

\* POST /api/config
postConfig(cfg, body) ==
  normalizeConfig([ requireApiKey |-> body.requireApiKey,
                    apiKeys |-> cfg.apiKeys,
                    maxRooms |-> IF isFinite(body.maxRooms) THEN body.maxRooms
                                 ELSE << cfg.maxRooms >> ])

\* POST /api/keys; randomKey is crypto.randomBytes(16).toString('hex').
postKeys(cfg, body, randomKey) ==
  LET provided == trim(body.key) IN
  IF body.action = "add"
  THEN normalizeConfig([ requireApiKey |-> cfg.requireApiKey,
                         apiKeys |-> cfg.apiKeys \cup
                                     { IF provided # << >> THEN provided ELSE randomKey },
                         maxRooms |-> << cfg.maxRooms >> ])
  ELSE IF body.action = "remove"
  THEN normalizeConfig([ requireApiKey |-> cfg.requireApiKey,
                         apiKeys |-> cfg.apiKeys \ { provided },
                         maxRooms |-> << cfg.maxRooms >> ])
  ELSE cfg

(* ----------------------------------------------------------------- inputs *)
ID_00 == << "0", "0" >>
ID_01 == << "0", "1" >>
KEY_K == << "k" >>

ClientIdInputs == ClientIds \cup {Absent}
RoomIdInputs == IdSpace \cup { << >> }
ProfileInputs ==
  { [nickname |-> Absent, avatar |-> Absent], [nickname |-> "nick", avatar |-> "av"] }
MetaInputs ==
  { [permission |-> Absent, visibility |-> Absent, requiresPassword |-> FALSE],
    [permission |-> "viewer", visibility |-> "private", requiresPassword |-> TRUE] }
NoProfile == { [nickname |-> Absent, avatar |-> Absent] }
DefaultMetas == { [permission |-> Absent, visibility |-> Absent, requiresPassword |-> FALSE] }
ListMetas ==
  { [permission |-> Absent, visibility |-> v, requiresPassword |-> FALSE] :
      v \in {Absent, "public", "private"} }
PermissionInputs == {Absent, "viewer"}
HostIdInputs == {"a", Absent}
TargetIdInputs == ClientIdInputs \cup {""}
BroadcastTargets == {Absent, ""}
ShareIds == {ID_00, ID_01}
MaxRoomsInputs == { << >>, << -1 >>, << 0 >>, << 1 >> }
CreateMaxRooms == { << >>, << 0 >>, << 1 >> }
KeyActionInputs == {"add", "remove", "rotate"}
CreateKeyActions == {"add", "remove"}
KeyInputs == { << >>, KEY_K }
ApiKeyInputs == { << >>, KEY_K, << " ", "k", " " >>, << "x" >> }
\* No query, an id, part of an id, blanks, an id with blanks around it.
QueryInputs ==
  IdSpace \cup { << >>, << " " >> } \cup { << d >> : d \in Digits }
          \cup { << " " >> \o r \o << " " >> : r \in IdSpace }

helloMessages(clientIds, profiles) ==
  { [type |-> "hello", clientId |-> c, nickname |-> p.nickname, avatar |-> p.avatar] :
      c \in clientIds, p \in profiles }

profileUpdateMessages(clientIds, profiles) ==
  { [type |-> "profile:update", clientId |-> c, nickname |-> p.nickname, avatar |-> p.avatar] :
      c \in clientIds, p \in profiles }

roomCreateMessages(clientIds, metas, apiKeys) ==
  { [type |-> "room:create", clientId |-> c, name |-> Absent, appVersion |-> Absent,
     requiresPassword |-> m.requiresPassword, permission |-> m.permission,
     visibility |-> m.visibility, apiKey |-> k] :
      c \in clientIds, m \in metas, k \in apiKeys }

shareAnnounceMessages(roomIds, hostIds, metas) ==
  { [type |-> "share:announce", roomId |-> r, hostId |-> h, projectId |-> Absent,
     name |-> Absent, appVersion |-> Absent, ownerNickname |-> Absent, address |-> << >>,
     requiresPassword |-> m.requiresPassword, permission |-> m.permission,
     visibility |-> m.visibility] :
      r \in roomIds, h \in hostIds, m \in metas }

\* room:list without a query field, and with each of the queries.
roomListMessages(queries) ==
  { [type |-> "room:list"] } \cup { [type |-> "room:list", query |-> q] : q \in queries }

joinRequestMessages(roomIds, clientIds) ==
  { [type |-> "join:request", roomId |-> r, clientId |-> c, nickname |-> Absent,
     avatar |-> Absent, password |-> pw, requestId |-> Absent] :
      r \in roomIds, c \in clientIds, pw \in {Absent, "pw"} }

joinApproveMessages(roomIds, clientIds, permissions) ==
  { [type |-> "join:approve", roomId |-> r, clientId |-> c, permission |-> p] :
      r \in roomIds, c \in clientIds, p \in permissions }

joinDenyMessages(roomIds, clientIds) ==
  { [type |-> "join:deny", roomId |-> r, clientId |-> c, reason |-> x] :
      r \in roomIds, c \in clientIds, x \in {Absent, "full"} }

clientMessageMessages(roomIds) ==
  { [type |-> "client:message", roomId |-> r, clientId |-> c, payload |-> "payload"] :
      r \in roomIds, c \in ClientIdInputs }

roomMessageMessages(roomIds, targetIds) ==
  { [type |-> "room:message", roomId |-> r, targetId |-> t, payload |-> "payload"] :
      r \in roomIds, t \in targetIds }

roomLeaveMessages(roomIds, clientIds) ==
  { [type |-> "room:leave", roomId |-> r, clientId |-> c] : r \in roomIds, c \in clientIds }

roomCloseMessages(roomIds) == { [type |-> "room:close", roomId |-> r] : r \in roomIds }

shareRemoveMessages(roomIds) == { [type |-> "share:remove", roomId |-> r] : r \in roomIds }

\* A frame JSON.parse rejects, one without a string type, one of an unknown type.
OtherFrames == { [type |-> "<unparseable>"], [type |-> Absent], [type |-> "room:kick"] }

postConfigBodies(flags, maxRooms) ==
  { [type |-> "POST /api/config", requireApiKey |-> f, maxRooms |-> n] :
      f \in flags, n \in maxRooms }

postKeysBodies(actions, keys) ==
  { [type |-> "POST /api/keys", action |-> a, key |-> k] : a \in actions, k \in keys }

(* ---------------------------------------------------------------- actions *)
\* last = Idle: no handler is running and nothing is waiting in sent.
Idle == [socket |-> NoSocket, message |-> [type |-> "idle"], draw |-> NoDraw]

Init ==
  /\ readyState = [s \in Sockets |-> "NEW"]
  /\ remoteAddress = [s \in Sockets |-> << >>]
  /\ networkKey = [s \in Sockets |-> << >>]
  /\ clients = << >>
  /\ clientsById = << >>
  /\ networkSockets = << >>
  /\ lanRoomsByNetwork = << >>
  /\ publicRooms = << >>
  /\ config = defaultConfig
  /\ sent = EmptyBag
  /\ last = Idle

OpenSockets == { s \in Sockets : readyState[s] = "OPEN" }

\* The handler ran to its end: its writes to the Maps and its sends take effect.
Handled(socket, message, draw, st) ==
  /\ clients' = st.clients
  /\ clientsById' = st.clientsById
  /\ networkSockets' = st.networkSockets
  /\ lanRoomsByNetwork' = st.lanRoomsByNetwork
  /\ publicRooms' = st.publicRooms
  /\ sent' = st.sent
  /\ last' = [socket |-> socket, message |-> message, draw |-> draw]

\* The callback has returned and the frames it sent have left the process.
Return ==
  /\ last # Idle
  /\ last' = Idle
  /\ sent' = EmptyBag
  /\ UNCHANGED << readyState, remoteAddress, networkKey, clients, clientsById,
                  networkSockets, lanRoomsByNetwork, publicRooms, config >>

\* wss.on('connection'): rawAddress is request.socket.remoteAddress.  Sockets are
\* taken in order, each used for one connection.
Connection(sockets, addresses) ==
  /\ last = Idle
  /\ \E socket \in sockets, rawAddress \in addresses :
       /\ readyState[socket] = "NEW"
       /\ \A t \in Sockets : t < socket => readyState[t] # "NEW"
       /\ LET address == normalizeAddress(rawAddress)
              key == networkKeyFromAddress(address)
              group == IF key \in DOMAIN networkSockets THEN networkSockets[key] ELSE {}
          IN  /\ remoteAddress' = [remoteAddress EXCEPT ![socket] = address]
              /\ networkKey' = [networkKey EXCEPT ![socket] = key]
              /\ readyState' = [readyState EXCEPT ![socket] = "OPEN"]
              /\ Handled(socket, [type |-> "connection", address |-> rawAddress], NoDraw,
                         [Here EXCEPT !.readyState = readyState',
                                      !.networkSockets = fnSet(@, key, group \cup {socket})])
       /\ UNCHANGED config

\* The transport leaves OPEN some time before it emits 'close'.
BeginClose(sockets) ==
  /\ last = Idle
  /\ \E socket \in sockets \cap OpenSockets :
       /\ readyState' = [readyState EXCEPT ![socket] = "CLOSING"]
       /\ Handled(socket, [type |-> "closing"], NoDraw, Here)
       /\ UNCHANGED << remoteAddress, networkKey, config >>

\* socket.on('close')
Close(sockets) ==
  /\ last = Idle
  /\ \E socket \in sockets :
       /\ readyState[socket] \in {"OPEN", "CLOSING"}
       /\ readyState' = [readyState EXCEPT ![socket] = "CLOSED"]
       /\ Handled(socket, [type |-> "close"], NoDraw,
                  onClose([Here EXCEPT !.readyState = readyState'], socket))
       /\ UNCHANGED << remoteAddress, networkKey, config >>

\* socket.on('message'): the handler of one frame ran on an open socket.
Received(socket, message, draw, st) ==
  /\ Handled(socket, message, draw, st)
  /\ UNCHANGED << readyState, remoteAddress, networkKey, config >>

Hello(sockets, clientIds, profiles) ==
  /\ last = Idle
  /\ \E socket \in sockets \cap OpenSockets, message \in helloMessages(clientIds, profiles) :
       Received(socket, message, NoDraw, onHello(Here, socket, message))

ProfileUpdate(sockets, clientIds, profiles) ==
  /\ last = Idle
  /\ \E socket \in sockets \cap OpenSockets,
        message \in profileUpdateMessages(clientIds, profiles) :
       Received(socket, message, NoDraw, onProfileUpdate(Here, socket, message))

ShareAnnounce(sockets, roomIds, hostIds, metas) ==
  /\ last = Idle
  /\ \E socket \in sockets \cap OpenSockets,
        message \in shareAnnounceMessages(roomIds, hostIds, metas) :
       Received(socket, message, NoDraw, onShareAnnounce(Here, socket, message))

ShareRemove(sockets, roomIds) ==
  /\ last = Idle
  /\ \E socket \in sockets \cap OpenSockets, message \in shareRemoveMessages(roomIds) :
       Received(socket, message, NoDraw, onShareRemove(Here, socket, message))

RoomList(sockets, queries) ==
  /\ last = Idle
  /\ \E socket \in sockets \cap OpenSockets, message \in roomListMessages(queries) :
       Received(socket, message, NoDraw, onRoomList(Here, socket, message))

JoinRequest(sockets, roomIds, clientIds) ==
  /\ last = Idle
  /\ \E socket \in sockets \cap OpenSockets, message \in joinRequestMessages(roomIds, clientIds) :
       Received(socket, message, NoDraw, onJoinRequest(Here, socket, message))

JoinApprove(sockets, roomIds, clientIds, permissions) ==
  /\ last = Idle
  /\ \E socket \in sockets \cap OpenSockets,
        message \in joinApproveMessages(roomIds, clientIds, permissions) :
       Received(socket, message, NoDraw, onJoinApprove(Here, socket, message))

JoinDeny(sockets, roomIds, clientIds) ==
  /\ last = Idle
  /\ \E socket \in sockets \cap OpenSockets, message \in joinDenyMessages(roomIds, clientIds) :
       Received(socket, message, NoDraw, onJoinDeny(Here, socket, message))

ClientMessage(sockets, roomIds) ==
  /\ last = Idle
  /\ \E socket \in sockets \cap OpenSockets, message \in clientMessageMessages(roomIds) :
       Received(socket, message, NoDraw, onClientMessage(Here, socket, message))

RoomMessage(sockets, roomIds, targetIds) ==
  /\ last = Idle
  /\ \E socket \in sockets \cap OpenSockets, message \in roomMessageMessages(roomIds, targetIds) :
       Received(socket, message, NoDraw, onRoomMessage(Here, socket, message))

RoomLeave(sockets, roomIds, clientIds) ==
  /\ last = Idle
  /\ \E socket \in sockets \cap OpenSockets, message \in roomLeaveMessages(roomIds, clientIds) :
       Received(socket, message, NoDraw, onRoomLeave(Here, socket, message))

RoomClose(sockets, roomIds) ==
  /\ last = Idle
  /\ \E socket \in sockets \cap OpenSockets, message \in roomCloseMessages(roomIds) :
       Received(socket, message, NoDraw, onRoomClose(Here, socket, message))

OtherFrame(sockets, messages) ==
  /\ last = Idle
  /\ \E socket \in sockets \cap OpenSockets, message \in messages :
       Received(socket, message, NoDraw, onOtherFrame(Here, socket, message))

\* room:create; ids bounds what the random bytes and the clock can yield.
RoomCreate(sockets, clientIds, metas, apiKeys, ids) ==
  /\ last = Idle
  /\ \E socket \in sockets \cap OpenSockets,
        message \in roomCreateMessages(clientIds, metas, apiKeys) :
       \E draw \in IF roomCreateRejection(Here, socket, message, config) = "none"
                      THEN generateRoomId(publicRooms, ids) ELSE {NoDraw} :
            LET st == onRoomCreate(Here, socket, message, config, draw) IN
            /\ Len(st.publicRooms) <= MaxPublicRooms
            /\ Received(socket, message, draw, st)

PostConfig(flags, maxRooms) ==
  /\ last = Idle
  /\ \E body \in postConfigBodies(flags, maxRooms) :
       /\ config' = postConfig(config, body)
       /\ Handled(NoSocket, body, NoDraw, Here)
       /\ UNCHANGED << readyState, remoteAddress, networkKey >>

PostKeys(actions, keys, randomKeys) ==
  /\ last = Idle
  /\ \E body \in postKeysBodies(actions, keys), randomKey \in randomKeys :
       /\ config' = postKeys(config, body, randomKey)
       /\ Handled(NoSocket, body, NoDraw, Here)
       /\ UNCHANGED << readyState, remoteAddress, networkKey >>

(* --------------------------------------------------------- specifications *)
\* Every operation, every socket, every input.
Next ==
  \/ Connection(Sockets, PeerAddresses)
  \/ BeginClose(Sockets)
  \/ Close(Sockets)
  \/ Hello(Sockets, ClientIdInputs, ProfileInputs)
  \/ ProfileUpdate(Sockets, ClientIdInputs, ProfileInputs)
  \/ ShareAnnounce(Sockets, RoomIdInputs, ClientIdInputs, MetaInputs)
  \/ ShareRemove(Sockets, RoomIdInputs)
  \/ RoomCreate(Sockets, ClientIdInputs, MetaInputs, ApiKeyInputs, IdSpace)
  \/ RoomList(Sockets, QueryInputs)
  \/ JoinRequest(Sockets, RoomIdInputs, ClientIdInputs)
  \/ JoinApprove(Sockets, RoomIdInputs, ClientIdInputs, PermissionInputs)
  \/ JoinDeny(Sockets, RoomIdInputs, ClientIdInputs)
  \/ ClientMessage(Sockets, RoomIdInputs)
  \/ RoomMessage(Sockets, RoomIdInputs, TargetIdInputs)
  \/ RoomLeave(Sockets, RoomIdInputs, ClientIdInputs)
  \/ RoomClose(Sockets, RoomIdInputs)
  \/ OtherFrame(Sockets, OtherFrames)
  \/ PostConfig(BOOLEAN, MaxRoomsInputs)
  \/ PostKeys(KeyActionInputs, KeyInputs, { << "g" >> })
  \/ Return

Spec == Init /\ [][Next]_vars

(* Room creation under the configuration: two connections on one network that
   register, create, close and remove public rooms while the administrator
   changes the configuration.  Random ids and the clock stay within two ids. *)
CreateSockets == {1, 2}
CreateIds == {ID_00, ID_01}

NextCreate ==
  \/ Connection(CreateSockets, {ADDR_10_0_0_5})
  \/ Close(CreateSockets)
  \/ Hello(CreateSockets, ClientIds, NoProfile)
  \/ RoomCreate(CreateSockets, ClientIdInputs, DefaultMetas, ApiKeyInputs, CreateIds)
  \/ RoomClose(CreateSockets, CreateIds)
  \/ ShareRemove(CreateSockets, CreateIds)
  \/ PostConfig(BOOLEAN, CreateMaxRooms)
  \/ PostKeys(CreateKeyActions, { KEY_K }, { << "g" >> })
  \/ Return

SpecCreate == Init /\ [][NextCreate]_vars

(* Room creation under a configuration that never changes: the configuration
   file sets a positive room limit and no administrator request arrives. *)
FixedConfigs ==
  { [requireApiKey |-> f, apiKeys |-> {KEY_K}, maxRooms |-> n] : f \in BOOLEAN, n \in {1, 2} }

InitFixed ==
  /\ readyState = [s \in Sockets |-> "NEW"]
  /\ remoteAddress = [s \in Sockets |-> << >>]
  /\ networkKey = [s \in Sockets |-> << >>]
  /\ clients = << >>
  /\ clientsById = << >>
  /\ networkSockets = << >>
  /\ lanRoomsByNetwork = << >>
  /\ publicRooms = << >>
  /\ config \in FixedConfigs
  /\ sent = EmptyBag
  /\ last = Idle

NextFixed ==
  \/ Connection(CreateSockets, {ADDR_10_0_0_5})
  \/ Close(CreateSockets)
  \/ Hello(CreateSockets, ClientIds, NoProfile)
  \/ RoomCreate(CreateSockets, ClientIdInputs, DefaultMetas, ApiKeyInputs, CreateIds)
  \/ RoomClose(CreateSockets, CreateIds)
  \/ ShareRemove(CreateSockets, CreateIds)
  \/ Return

SpecFixed == InitFixed /\ [][NextFixed]_vars

(* Listing: two connections on one network register, create public rooms of
   either visibility, close them and list them with a query that is missing,
   blank, an id, a part of an id or an id between blanks. *)
ListSockets == {1, 2}
ListIds == {ID_00, ID_01}
ListQueries ==
  ListIds \cup { << >>, << " " >>, << "0" >>, << "1" >>, << "1", "0" >> }
          \cup { << " " >> \o r \o << " " >> : r \in ListIds }

NextList ==
  \/ Connection(ListSockets, {ADDR_10_0_0_5})
  \/ Close(ListSockets)
  \/ Hello(ListSockets, {"a"}, NoProfile)
  \/ RoomCreate(ListSockets, {"a"}, ListMetas, { << >> }, ListIds)
  \/ RoomClose(ListSockets, ListIds)
  \/ RoomList(ListSockets, ListQueries)
  \/ Return

SpecList == Init /\ [][NextList]_vars

(* Host disconnect: connection 1 registers and creates public rooms, approves
   client ids into them and closes; connections 2 and 3 register under the same
   ids and close, connection 2 lists the rooms, and connection 3 can be on its
   way to closed (no longer open, its close not yet handled). *)
HostCloseHosts == {1}
HostCloseSockets == {1, 2, 3}
HostCloseIds == {ID_00, ID_01}

NextHostClose ==
  \/ Connection(HostCloseSockets, {ADDR_10_0_0_5})
  \/ BeginClose({3})
  \/ Close(HostCloseSockets)
  \/ Hello(HostCloseSockets, ClientIds, NoProfile)
  \/ RoomCreate(HostCloseHosts, ClientIds, DefaultMetas, { << >> }, HostCloseIds)
  \/ JoinApprove(HostCloseHosts, HostCloseIds, ClientIds, {Absent})
  \/ RoomList({2}, {})
  \/ Return

SpecHostClose == Init /\ [][NextHostClose]_vars

(* Joining: three connections on one network register; connection 1 creates a
   public room, connections 1 and 2 announce a LAN room under the same id, any
   connection approves a client id into the room of that id, and connections
   close (connection 3 can be on its way to closed). *)
JoinSockets == {1, 2, 3}
JoinIds == {ID_00}

NextJoin ==
  \/ Connection(JoinSockets, {ADDR_10_0_0_5})
  \/ BeginClose({3})
  \/ Close(JoinSockets)
  \/ Hello(JoinSockets, ClientIds, NoProfile)
  \/ RoomCreate({1}, ClientIds, DefaultMetas, { << >> }, JoinIds)
  \/ ShareAnnounce({1, 2}, JoinIds, {"a"}, DefaultMetas)
  \/ JoinApprove(JoinSockets, JoinIds, ClientIdInputs, PermissionInputs)
  \/ Return

SpecJoin == Init /\ [][NextJoin]_vars

(* The join walk-through: two connections on one network register, create
   public rooms, ask to join, approve and send client messages, in any order
   and with either client id; nothing closes and the configuration stays the
   default one (no key gating, limit far away). *)
TraceSockets == {1, 2}
TraceIds == {ID_00, ID_01}

NextTrace ==
  \/ Connection(TraceSockets, {ADDR_10_0_0_5})
  \/ Hello(TraceSockets, ClientIds, NoProfile)
  \/ RoomCreate(TraceSockets, ClientIds, DefaultMetas, { << >> }, TraceIds)
  \/ JoinRequest(TraceSockets, TraceIds, ClientIds)
  \/ JoinApprove(TraceSockets, TraceIds, ClientIds, PermissionInputs)
  \/ ClientMessage(TraceSockets, TraceIds)
  \/ Return

SpecTrace == Init /\ [][NextTrace]_vars

(* Disconnect across networks: connections 1 and 2 come from one network and
   connection 3 from another; 1 and 2 register, connection 1 creates a public room,
   connections 1 and 3 announce LAN rooms under the one id and approve client
   ids into the room the id resolves to, and every connection closes
   (connection 2 can be on its way to closed). *)
CloseSockets == {1, 2, 3}
CloseIds == {ID_00}

NextClose ==
  \/ Connection({1, 2}, {ADDR_10_0_0_5})
  \/ Connection({3}, {ADDR_10_0_1_7})
  \/ BeginClose({2})
  \/ Close(CloseSockets)
  \/ Hello({1, 2}, ClientIds, NoProfile)
  \/ RoomCreate({1}, ClientIds, DefaultMetas, { << >> }, CloseIds)
  \/ ShareAnnounce({1, 3}, CloseIds, {"a"}, DefaultMetas)
  \/ JoinApprove({1, 3}, CloseIds, ClientIds, {Absent})
  \/ Return

SpecClose == Init /\ [][NextClose]_vars

(* The registry: three connections on one network send hello, any number of
   times and under either client id, update their profile, send frames no
   handler takes, and close; connection 1 announces a LAN room. *)
RegistrySockets == {1, 2, 3}

NextRegistry ==
  \/ Connection(RegistrySockets, {ADDR_10_0_0_5})
  \/ BeginClose(RegistrySockets)
  \/ Close(RegistrySockets)
  \/ Hello(RegistrySockets, ClientIdInputs, ProfileInputs)
  \/ ProfileUpdate(RegistrySockets, ClientIdInputs, ProfileInputs)
  \/ ShareAnnounce({1}, {ID_00}, {"a"}, DefaultMetas)
  \/ OtherFrame(RegistrySockets, OtherFrames)
  \/ Return

SpecRegistry == Init /\ [][NextRegistry]_vars

(* Relay across networks: connections 1 and 2 come from one network and
   connection 3 from another; they register, connection 1 creates a public
   room, connections 1 and 3 announce LAN rooms under the one id, connections 2
   and 3 ask to join and send client messages, the hosts send room messages, and
   connection 1 leaves (open, then on its way to closed, then closed). *)
RelaySockets == {1, 2, 3}
RelayIds == {ID_00}
RelayRoomIds == RelayIds \cup { << >> }

NextRelay ==
  \/ Connection({1, 2}, {ADDR_10_0_0_5})
  \/ Connection({3}, {ADDR_10_0_1_7})
  \/ BeginClose({1})
  \/ Close({1})
  \/ Hello(RelaySockets, ClientIds, NoProfile)
  \/ RoomCreate({1}, ClientIds, DefaultMetas, { << >> }, RelayIds)
  \/ ShareAnnounce({1, 3}, RelayIds, {"a"}, DefaultMetas)
  \/ JoinRequest({2, 3}, RelayIds, ClientIds)
  \/ ClientMessage({2, 3}, RelayRoomIds)
  \/ RoomMessage({1, 3}, RelayIds, ClientIdInputs)
  \/ Return

SpecRelay == Init /\ [][NextRelay]_vars

(* Rooms of one network: three connections on one network register; connection
   1 creates a public room, connections 1 and 2 announce a LAN room under the
   same id and approve or deny client ids for the room the id resolves to; every
   connection sends room messages to all members and asks for a leave, a close
   or the end of the announcement; connection 3 asks to join and can be on its
   way to closed, and connection 1 closes. *)
NextRoom ==
  \/ Connection({1, 2, 3}, {ADDR_10_0_0_5})
  \/ BeginClose({3})
  \/ Close({1})
  \/ Hello({1, 2, 3}, ClientIds, NoProfile)
  \/ RoomCreate({1}, ClientIds, DefaultMetas, { << >> }, {ID_00})
  \/ ShareAnnounce({1, 2}, {ID_00}, {"a"}, DefaultMetas)
  \/ JoinApprove({1, 2}, {ID_00}, ClientIds, {Absent})
  \/ JoinDeny({1, 2, 3}, {ID_00}, ClientIds)
  \/ JoinRequest({3}, {ID_00}, ClientIds)
  \/ RoomMessage({1, 2, 3}, {ID_00}, BroadcastTargets)
  \/ RoomLeave({1, 2, 3}, {ID_00}, ClientIds)
  \/ RoomClose({1, 2, 3}, {ID_00})
  \/ ShareRemove({1, 2, 3}, {ID_00})
  \/ Return

SpecRoom == Init /\ [][NextRoom]_vars

(* Addresses: two connections arrive from any of the peer addresses (dotted
   quads, IPv4-mapped dotted quads, an IPv6 address, no address, addresses of no
   known form) and close. *)
NextAddress ==
  \/ Connection({1, 2}, AddressInputs)
  \/ Close({1, 2})
  \/ Return

SpecAddress == Init /\ [][NextAddress]_vars

(* Announcements: connections 1 and 2 come from one network and connection 3
   from another; each announces LAN rooms under two ids, with or without a host
   id, and approves client ids for them; connection 2 can be on its way to
   closed. *)
NextShare ==
  \/ Connection({1, 2}, {ADDR_10_0_0_5})
  \/ Connection({3}, {ADDR_10_0_1_7})
  \/ BeginClose({2})
  \/ ShareAnnounce({1, 2, 3}, ShareIds, HostIdInputs, MetaInputs)
  \/ JoinApprove({1, 2, 3}, ShareIds, {"a"}, {Absent})
  \/ Return

SpecShare == Init /\ [][NextShare]_vars

(* ------------------------------------------------------------- properties *)
\* The frame { to, msg } is among what the handler sent.
Sent(bag, socket, message) == BagIn([to |-> socket, msg |-> message], bag)

Only(socket, message) == SetToBag({[to |-> socket, msg |-> message]})

\* The last event is a room:create.
IsRoomCreate(event) == event.message.type = "room:create"

\* The sender of the room:create has a profile whose clientId the message carries.
OwnProfile(event) ==
  /\ event.socket \in DOMAIN clients
  /\ clients[event.socket].clientId = str(event.message.clientId)

\* The apiKey field as sent is empty (or absent) or is not an active key.
KeyOutsideSet(event) ==
  event.message.apiKey = << >> \/ event.message.apiKey \notin config.apiKeys

\* The supplied apiKey (cleared of surrounding blanks) is empty or not an active key.
KeyRejected(event) ==
  trim(event.message.apiKey) = << >> \/ trim(event.message.apiKey) \notin config.apiKeys

ApiKeyError == [type |-> "room:error", reason |-> "api_key_required", message |-> "API key required"]

RoomLimitError == [type |-> "room:error", reason |-> "room_limit", message |-> "Room limit reached"]

\* The room:create was admitted: the handler sent room:created.
Admitted(event, bag) ==
  /\ IsRoomCreate(event)
  /\ Sent(bag, event.socket, [type |-> "room:created", roomId |-> event.draw.roomId])

\* C1, as stated: the id an admitted room:create allocates is the id of no live
\* public room, so the create replaces no room and adds exactly one.
C1_AllocatedIdAlwaysFresh ==
  [][ Admitted(last', sent')
        => /\ ~ mapHas(publicRooms, last'.draw.roomId)
           /\ Len(publicRooms') = Len(publicRooms) + 1 ]_vars

\* C1, amended: an id that comes from one of the ROOM_ID_ATTEMPTS random draws is
\* the id of no live public room, and the create then keeps every live room as it
\* was and adds exactly one; only the timestamp fallback can return a live id, and
\* the create then replaces that room by the new one and the count stays.
C1_AllocatedIdFreshUnlessFallback ==
  [][ Admitted(last', sent')
        => LET id == last'.draw.roomId IN
           /\ ~ last'.draw.fallback => ~ mapHas(publicRooms, id)
           /\ mapHas(publicRooms', id)
           /\ mapGet(publicRooms', id).hostSocket = last'.socket
           /\ mapGet(publicRooms', id).members = {}
           /\ \A i \in 1..Len(publicRooms) :
                publicRooms[i].key # id => publicRooms'[i] = publicRooms[i]
           /\ Len(publicRooms') = IF mapHas(publicRooms, id) THEN Len(publicRooms)
                                  ELSE Len(publicRooms) + 1 ]_vars

\* C1: a room:create was admitted with an id from a random draw while another
\* public room was live.
C1_Witness ==
  /\ Admitted(last, sent)
  /\ ~ last.draw.fallback
  /\ Len(publicRooms) = 2

\* C2, as stated: with key gating on, a room:create whose apiKey field is absent,
\* empty or not an active key leaves the public room store as it was.
C2_KeyOutsideSetCreatesNoRoom ==
  [][ (IsRoomCreate(last') /\ config.requireApiKey /\ KeyOutsideSet(last'))
        => publicRooms' = publicRooms ]_vars

\* C2, amended: with key gating on, a room:create whose apiKey, once the blanks
\* around it are removed, is empty or not an active key leaves the public room
\* store as it was.
C2_RejectedKeyCreatesNoRoom ==
  [][ (IsRoomCreate(last') /\ config.requireApiKey /\ KeyRejected(last'))
        => publicRooms' = publicRooms ]_vars

\* C2: such a room:create has been handled, from a registered sender, with the
\* room limit not reached.
C2_Witness ==
  /\ IsRoomCreate(last) /\ config.requireApiKey /\ KeyRejected(last)
  /\ OwnProfile(last)
  /\ last.message.apiKey = << "x" >>
  /\ config.apiKeys = {KEY_K}
  /\ ~ (config.maxRooms > 0 /\ Len(publicRooms) >= config.maxRooms)

\* C3, as stated: with key gating on, every room:create whose apiKey is absent,
\* empty or not an active key is answered with room:error api_key_required,
\* whatever the sender and the clientId.
C3_RejectedKeyAlwaysAnswered ==
  (IsRoomCreate(last) /\ config.requireApiKey /\ KeyOutsideSet(last))
    => Sent(sent, last.socket, ApiKeyError)

\* C3, amended: with key gating on, a room:create whose apiKey, once the blanks
\* around it are removed, is empty or not an active key is answered with exactly one frame, room:error
\* api_key_required to the sender, when the sender has a profile whose clientId
\* is the message's clientId; from any other sender it is answered with nothing.
C3_RejectedKeyAnsweredToOwnProfile ==
  (IsRoomCreate(last) /\ config.requireApiKey /\ KeyRejected(last))
    => sent = IF OwnProfile(last) THEN Only(last.socket, ApiKeyError) ELSE EmptyBag

\* C3: a registered sender got api_key_required although the room limit was reached.
C3_Witness ==
  /\ IsRoomCreate(last) /\ config.requireApiKey /\ KeyRejected(last)
  /\ OwnProfile(last)
  /\ config.maxRooms > 0 /\ Len(publicRooms) >= config.maxRooms
  /\ Sent(sent, last.socket, ApiKeyError)

\* C4, as stated: when maxRooms is positive and as many public rooms are live,
\* every room:create is answered with room:error room_limit and creates no room,
\* whatever the sender, the key gating and the apiKey.
C4_AtLimitAlwaysRoomLimit ==
  [][ (IsRoomCreate(last') /\ config.maxRooms > 0 /\ Len(publicRooms) = config.maxRooms)
        => /\ Sent(sent', last'.socket, RoomLimitError)
           /\ publicRooms' = publicRooms ]_vars

\* C4, amended: when maxRooms is positive and as many public rooms are live, no
\* room:create creates a room; it is answered with room:error room_limit when the
\* sender has a profile whose clientId is the message's clientId and the message
\* passes the key gate (gating off, or an active apiKey); a sender that fails the
\* key gate gets api_key_required instead, and any other sender gets nothing.
C4_AtLimitRoomLimitAfterGate ==
  [][ (IsRoomCreate(last') /\ config.maxRooms > 0 /\ Len(publicRooms) = config.maxRooms)
        => /\ publicRooms' = publicRooms
           /\ sent' = IF ~ OwnProfile(last') THEN EmptyBag
                      ELSE IF config.requireApiKey /\ KeyRejected(last')
                      THEN Only(last'.socket, ApiKeyError)
                      ELSE Only(last'.socket, RoomLimitError) ]_vars

\* C4: a room:create with an active key was refused with room_limit under key gating.
C4_Witness ==
  /\ IsRoomCreate(last) /\ config.maxRooms > 0 /\ Len(publicRooms) = config.maxRooms
  /\ config.requireApiKey /\ ~ KeyRejected(last)
  /\ Sent(sent, last.socket, RoomLimitError)

\* C5: while the configuration stays as loaded with maxRooms > 0, the number of
\* live public rooms never exceeds maxRooms.
C5_RoomCountWithinLimit ==
  config.maxRooms > 0 => Len(publicRooms) <= config.maxRooms

\* C5: the limit was reached and a further room:create was refused.
C5_Witness ==
  /\ IsRoomCreate(last) /\ Sent(sent, last.socket, RoomLimitError)
  /\ Len(publicRooms) = config.maxRooms

\* The last event is a room:list.
IsRoomList(event) == event.message.type = "room:list"

\* The room:list reply the handler sent to the asking connection.
ListReply == (CHOOSE f \in BagToSet(sent) : f.to = last.socket /\ f.msg.type = "room:list").msg

\* The room ids of a reply.
Listed(reply) == { reply.rooms[i].roomId : i \in 1..Len(reply.rooms) }

\* The live public-store rooms.
PublicStore == { publicRooms[i] : i \in 1..Len(publicRooms) }

PrivateRooms == { room \in PublicStore : room.meta.visibility = "private" }

\* The query field of the message as sent; none is the empty query.
QueryAsSent(event) == IF "query" \in DOMAIN event.message THEN event.message.query ELSE << >>

\* C6, as stated: for a live private room P, a room:list whose query is P's id
\* returns P and no other room, and a room:list with no query, an empty query or
\* any query that is not exactly P's id does not return P.
C6_PrivateListedByExactQueryAsSent ==
  IsRoomList(last) =>
    \A P \in PrivateRooms :
      IF QueryAsSent(last) = P.key
      THEN ListReply.rooms = << P.meta >>
      ELSE P.key \notin Listed(ListReply)

\* C6, amended: the handler removes the blanks around the query and answers with
\* the query it used; for a live private room P, the reply lists P and no other
\* room when that query is P's id, and does not list P when it is anything else
\* (empty, a part of P's id, another id).
C6_PrivateListedByExactTrimmedQuery ==
  IsRoomList(last) =>
    /\ ListReply.query = trim(QueryAsSent(last))
    /\ sent = Only(last.socket, ListReply)
    /\ \A P \in PrivateRooms :
         IF ListReply.query = P.key
         THEN ListReply.rooms = << P.meta >>
         ELSE P.key \notin Listed(ListReply)

\* C6: a private room was listed by its exact id while a public-visibility room
\* was live as well.
C6_Witness ==
  /\ IsRoomList(last)
  /\ \E P \in PrivateRooms :
       /\ QueryAsSent(last) = P.key
       /\ ListReply.rooms = << P.meta >>
  /\ \E room \in PublicStore : room.meta.visibility = "public"

\* C7, as stated: whatever the query Q, the rooms a room:list returns are every
\* live room of visibility public and every live room whose id is Q.
C7_ListedPublicRegardlessOfQuery ==
  IsRoomList(last) =>
    Listed(ListReply) =
      { room.key : room \in { r \in PublicStore :
                                \/ r.meta.visibility = "public"
                                \/ r.key = QueryAsSent(last) } }

\* C7, amended: with q the query cleared of the blanks around it, a room:list
\* returns, in the order the rooms were created and each once, the metadata of
\* every live room of visibility public when q is empty, and otherwise of every
\* live room of visibility public whose id contains q and of every live private
\* room whose id is q.
C7_ListedPublicContainingQuery ==
  IsRoomList(last) =>
    LET q == trim(QueryAsSent(last))
        wanted == { r \in PublicStore :
                      IF r.meta.visibility = "public"
                      THEN q = << >> \/ \E i \in 1..Len(r.key), j \in 1..Len(r.key) :
                                          SubSeq(r.key, i, j) = q
                      ELSE r.key = q }
    IN  /\ { ListReply.rooms[i] : i \in 1..Len(ListReply.rooms) } = { r.meta : r \in wanted }
        /\ Len(ListReply.rooms) = Cardinality(wanted)
        /\ \A i \in 1..Len(ListReply.rooms), j \in 1..Len(ListReply.rooms) :
             i < j => \E m \in 1..Len(publicRooms), n \in 1..Len(publicRooms) :
                        /\ m < n
                        /\ publicRooms[m].meta = ListReply.rooms[i]
                        /\ publicRooms[n].meta = ListReply.rooms[j]

\* C7: a query that is part of one live public room's id and of no other's
\* returned that room alone out of two rooms of visibility public.
C7_Witness ==
  /\ IsRoomList(last)
  /\ QueryAsSent(last) = << "1" >>
  /\ Cardinality({ r \in PublicStore : r.meta.visibility = "public" }) = 2
  /\ Len(ListReply.rooms) = 1

\* The last event is the close of a connection.
IsClose(event) == event.message.type = "close"

\* The live public rooms whose host connection is socket.
HostedBy(socket) == { room \in PublicStore : room.hostSocket = socket }

\* The client id of the profile of socket, or none.
ProfileIdOf(socket) == IF socket \in DOMAIN clients THEN { clients[socket].clientId } ELSE {}

RoomClosed(roomId) == [type |-> "room:closed", roomId |-> roomId]

\* How many room:closed frames the handler sent.
RoomClosedCount(bag) ==
  LET frames == { f \in BagToSet(bag) : f.msg.type = "room:closed" }
      count[S \in SUBSET frames] ==
        IF S = {} THEN 0
        ELSE LET f == CHOOSE x \in S : TRUE IN CopiesIn(f, bag) + count[S \ {f}]
  IN  count[frames]

\* C8, as stated: when a connection closes, every member id of each public room
\* it hosts that has a registered connection which is open gets room:closed for
\* that room, there is one such broadcast per hosted room, and the rooms are gone
\* from the store and from every later room:list.
C8_HostCloseReachesEveryMember ==
  [][ /\ IsClose(last') =>
           \A room \in HostedBy(last'.socket) :
             /\ ~ mapHas(publicRooms', room.key)
             /\ \A m \in room.members :
                  (m \in DOMAIN clientsById /\ readyState'[clientsById[m]] = "OPEN")
                    => Sent(sent', clientsById[m], RoomClosed(room.key))
      /\ IsRoomList(last') =>
           \A f \in BagToSet(sent') :
             f.msg.type = "room:list" =>
               \A i \in 1..Len(f.msg.rooms) : mapHas(publicRooms', f.msg.rooms[i].roomId) ]_vars

\* C8, amended: the close handler first takes the closing connection's own client
\* id out of every member set.  Then, for each public room the connection hosts,
\* each remaining member id whose registered connection is open gets one
\* room:closed for that room (a connection registered under several member ids
\* gets one per id), nobody else gets any, no room:closed is sent for any other
\* room, and the hosted rooms are gone from the store; every room of a later
\* room:list is a live room.
C8_HostCloseReachesRemainingMembers ==
  [][ /\ IsClose(last') =>
           LET hosted == HostedBy(last'.socket)
               own == ProfileIdOf(last'.socket)
               reached(room, t) ==
                 { m \in room.members \ own :
                     /\ m \in DOMAIN clientsById
                     /\ clientsById[m] = t
                     /\ readyState'[t] = "OPEN" }
           IN  /\ \A room \in hosted :
                    /\ ~ mapHas(publicRooms', room.key)
                    /\ \A t \in Sockets :
                         CopiesIn([to |-> t, msg |-> RoomClosed(room.key)], sent')
                           = Cardinality(reached(room, t))
               /\ \A f \in BagToSet(sent') :
                    f.msg.type = "room:closed" => \E room \in hosted : f.msg.roomId = room.key
               /\ \A room \in PublicStore \ hosted :
                    /\ mapHas(publicRooms', room.key)
                    /\ mapGet(publicRooms', room.key).members = room.members \ own
      /\ IsRoomList(last') =>
           \A f \in BagToSet(sent') :
             f.msg.type = "room:list" =>
               \A i \in 1..Len(f.msg.rooms) : mapHas(publicRooms', f.msg.rooms[i].roomId) ]_vars

\* C8: the host of two public rooms closed, two room:closed frames for different
\* rooms were sent, and a member whose connection had begun to close got none.
C8_Witness ==
  /\ IsClose(last)
  /\ publicRooms = << >>
  /\ \E t \in Sockets :
       /\ Sent(sent, t, RoomClosed(ID_00))
       /\ Sent(sent, t, RoomClosed(ID_01))
  /\ RoomClosedCount(sent) = 2
  /\ \E u \in Sockets : readyState[u] = "CLOSING" /\ u \in DOMAIN clients

\* The last event is a join:approve.
IsJoinApprove(event) == event.message.type = "join:approve"

\* Every live room of the two stores with where it is stored.
RoomsOf(pub, lan) ==
  { [kind |-> "public", networkKey |-> << >>, room |-> pub[i]] : i \in 1..Len(pub) }
  \cup UNION { { [kind |-> "lan", networkKey |-> k, room |-> lan[k][i]] : i \in 1..Len(lan[k]) } :
               k \in DOMAIN lan }

\* The place of a stored room: store, network, room id.
Place(R) == [kind |-> R.kind, networkKey |-> R.networkKey, roomId |-> R.room.key]

\* The frame join:approved a join:approve of a room hosted under hostId yields.
JoinApproved(message, hostId) ==
  [type |-> "join:approved", roomId |-> message.roomId, hostId |-> hostId,
   permission |-> IF message.permission = Absent THEN "editor" ELSE message.permission]

\* C9: a join:approve from a connection that is the host connection of no live
\* room of the id it names leaves both room stores as they were and sends
\* nothing; and whatever the step, a client id enters the member set of a room
\* only in a join:approve naming that id and that room's id, received on the
\* room's host connection.
C9_OnlyHostApproveAddsMembers ==
  [][ /\ ( /\ IsJoinApprove(last')
           /\ \A R \in RoomsOf(publicRooms, lanRoomsByNetwork) :
                R.room.key = last'.message.roomId => R.room.hostSocket # last'.socket )
         => /\ publicRooms' = publicRooms
            /\ lanRoomsByNetwork' = lanRoomsByNetwork
            /\ sent' = EmptyBag
      /\ \A after \in RoomsOf(publicRooms', lanRoomsByNetwork') :
           \A c \in after.room.members :
             \/ \E before \in RoomsOf(publicRooms, lanRoomsByNetwork) :
                  Place(before) = Place(after) /\ c \in before.room.members
             \/ /\ IsJoinApprove(last')
                /\ last'.message.roomId = after.room.key
                /\ last'.message.clientId = c
                /\ last'.socket = after.room.hostSocket
                /\ \E before \in RoomsOf(publicRooms, lanRoomsByNetwork) :
                     Place(before) = Place(after) /\ before.room.hostSocket = last'.socket ]_vars

\* C9: a join:approve naming a live room with members came from a connection
\* that is not its host, and nothing was sent.
C9_Witness ==
  /\ IsJoinApprove(last)
  /\ last.message.clientId = "b"
  /\ sent = EmptyBag
  /\ \E R \in RoomsOf(publicRooms, lanRoomsByNetwork) :
       /\ R.room.key = last.message.roomId
       /\ R.room.members = {"a"}
       /\ "b" \in DOMAIN clientsById
  /\ \A R \in RoomsOf(publicRooms, lanRoomsByNetwork) :
       R.room.key = last.message.roomId => R.room.hostSocket # last.socket

\* The live rooms of the id a join:approve names whose host connection sent it.
HostedAndNamed(event) ==
  { R \in RoomsOf(publicRooms, lanRoomsByNetwork) :
      R.room.key = event.message.roomId /\ R.room.hostSocket = event.socket }

\* The member set of the room stored at a place after the step.
MembersAfter(place) ==
  (CHOOSE R \in RoomsOf(publicRooms', lanRoomsByNetwork') : Place(R) = place).room.members

\* C10, as stated: a join:approve received on the host connection of a live
\* room, public or LAN, adds the client id to that room's member set and, when a
\* connection is registered under the client id, sends it join:approved with
\* that room's host id.
C10_HostApproveAddsToEveryHostedRoom ==
  [][ (IsJoinApprove(last') /\ last'.message.clientId # Absent)
        => \A R \in HostedAndNamed(last') :
             LET c == last'.message.clientId IN
             /\ \E S \in RoomsOf(publicRooms', lanRoomsByNetwork') : Place(S) = Place(R)
             /\ MembersAfter(Place(R)) = R.room.members \cup {c}
             /\ c \in DOMAIN clientsById
                  => Sent(sent', clientsById[c], JoinApproved(last'.message, R.room.hostId)) ]_vars

\* C10, amended: a join:approve with a room id and a client id acts on one room,
\* the public room of that id if there is one and otherwise the LAN room of that
\* id on the sender's network.  When the sender is that room's host connection
\* the client id joins its member set, registered or not, every other room stays
\* as it was (a LAN room of the same id too), and the one frame sent is
\* join:approved with that room's host id and the permission asked (editor when
\* none), to the connection registered under the client id if it is open; no
\* frame is sent when none is registered or when it is no longer open.
C10_HostApproveAddsToResolvedRoom ==
  [][ (IsJoinApprove(last') /\ last'.message.clientId # Absent)
        => LET c == last'.message.clientId
               named == { R \in RoomsOf(publicRooms, lanRoomsByNetwork) :
                            R.room.key = last'.message.roomId }
               public == { R \in named : R.kind = "public" }
               resolved == IF public # {} THEN public
                           ELSE { R \in named : R.networkKey = networkKey[last'.socket] }
           IN  \A R \in resolved :
                 R.room.hostSocket = last'.socket
                   => /\ \A S \in RoomsOf(publicRooms, lanRoomsByNetwork) :
                           /\ \E T \in RoomsOf(publicRooms', lanRoomsByNetwork') :
                                Place(T) = Place(S)
                           /\ MembersAfter(Place(S)) =
                                IF S = R THEN R.room.members \cup {c} ELSE S.room.members
                      /\ sent' = IF c \in DOMAIN clientsById /\ readyState[clientsById[c]] = "OPEN"
                                 THEN Only(clientsById[c], JoinApproved(last'.message, R.room.hostId))
                                 ELSE EmptyBag ]_vars

\* C10: the host of a LAN room approved a client id no connection is registered
\* under: the id is a member and nothing was sent.
C10_Witness ==
  /\ IsJoinApprove(last)
  /\ last.message.clientId = "b"
  /\ "b" \notin DOMAIN clientsById
  /\ publicRooms = << >>
  /\ \E R \in RoomsOf(publicRooms, lanRoomsByNetwork) :
       /\ R.kind = "lan"
       /\ R.room.key = last.message.roomId
       /\ R.room.hostSocket = last.socket
       /\ R.room.members = {"a", "b"}
  /\ sent = EmptyBag

\* The registry of the walk-through: connection 1 is A registered as a, and
\* connection 2 is B registered as b or not registered yet.
TraceRegistry(withB) ==
  /\ readyState[1] = "OPEN"
  /\ clients = IF withB
               THEN << [clientId |-> "a", nickname |-> "", avatar |-> Undefined,
                        networkKey |-> networkKey[1]],
                       [clientId |-> "b", nickname |-> "", avatar |-> Undefined,
                        networkKey |-> networkKey[2]] >>
               ELSE << [clientId |-> "a", nickname |-> "", avatar |-> Undefined,
                        networkKey |-> networkKey[1]] >>
  /\ clientsById = IF withB THEN [c \in {"a", "b"} |-> IF c = "a" THEN 1 ELSE 2]
                   ELSE [c \in {"a"} |-> 1]
  /\ withB => readyState[2] = "OPEN"
  /\ lanRoomsByNetwork = << >>
  /\ config = defaultConfig

\* The one room of the walk-through, created by A, with its members.
TraceRoom(rooms, R, members) ==
  rooms = << [key |-> R, hostId |-> "a", hostSocket |-> 1, members |-> members,
                    meta |-> [roomId |-> R, name |-> "", requiresPassword |-> FALSE,
                              permission |-> "editor", visibility |-> "public",
                              appVersion |-> ""]] >>

\* C11: from the empty server, A (hello a) creates a room and gets room:created
\* with its id R; B (hello b) asks to join (R, b) and A alone gets the
\* join:request; A approves (R, b, viewer), B alone gets join:approved with R,
\* host id a and permission viewer, and b is a member of R; B's client:message
\* for R reaches A and only A, with client id b and the payload.
C11_JoinWalkThrough ==
  [][ /\ ( /\ TraceRegistry(FALSE) /\ publicRooms = << >>
           /\ last'.socket = 1 /\ IsRoomCreate(last') /\ last'.message.clientId = "a" )
         => /\ ~ last'.draw.fallback
            /\ sent' = Only(1, [type |-> "room:created", roomId |-> last'.draw.roomId])
            /\ TraceRoom(publicRooms', last'.draw.roomId, {})
      /\ \A R \in TraceIds :
           /\ ( /\ TraceRegistry(TRUE) /\ TraceRoom(publicRooms, R, {})
                /\ last'.socket = 2 /\ last'.message.type = "join:request"
                /\ last'.message.roomId = R /\ last'.message.clientId = "b" )
              => /\ sent' = Only(1, [type |-> "join:request", roomId |-> R, clientId |-> "b",
                                     nickname |-> "",
                                     avatar |-> Undefined,
                                     password |-> strOrUndefined(last'.message.password),
                                     requestId |-> ""])
                 /\ TraceRoom(publicRooms', R, {})
           /\ ( /\ TraceRegistry(TRUE) /\ TraceRoom(publicRooms, R, {})
                /\ last'.socket = 1 /\ IsJoinApprove(last')
                /\ last'.message.roomId = R /\ last'.message.clientId = "b"
                /\ last'.message.permission = "viewer" )
              => /\ sent' = Only(2, [type |-> "join:approved", roomId |-> R, hostId |-> "a",
                                     permission |-> "viewer"])
                 /\ TraceRoom(publicRooms', R, {"b"})
           /\ ( /\ TraceRegistry(TRUE) /\ TraceRoom(publicRooms, R, {"b"})
                /\ last'.socket = 2 /\ last'.message.type = "client:message"
                /\ last'.message.roomId = R )
              => /\ sent' = Only(1, [type |-> "client:message", roomId |-> R, clientId |-> "b",
                                     payload |-> last'.message.payload])
                 /\ TraceRoom(publicRooms', R, {"b"}) ]_vars

\* C11: the end of the walk-through: b is a member of A's room and A has just
\* been handed B's client:message.
C11_Witness ==
  /\ TraceRegistry(TRUE)
  /\ \E R \in TraceIds :
       /\ TraceRoom(publicRooms, R, {"b"})
       /\ last.socket = 2 /\ last.message.type = "client:message" /\ last.message.roomId = R
       /\ sent = Only(1, [type |-> "client:message", roomId |-> R, clientId |-> "b",
                          payload |-> "payload"])

\* C12: a share:announce naming a LAN room that exists under the sender's
\* network key, from a connection that is not that room's host connection,
\* leaves the room's host connection, host id and metadata as they were.
C12_NonHostAnnounceKeepsListing ==
  [][ last'.message.type = "share:announce"
        => \A R \in RoomsOf(publicRooms, lanRoomsByNetwork) :
             ( /\ R.kind = "lan"
               /\ R.networkKey = networkKey[last'.socket]
               /\ R.room.key = last'.message.roomId
               /\ R.room.hostSocket # last'.socket )
             => \E S \in RoomsOf(publicRooms', lanRoomsByNetwork') :
                  /\ Place(S) = Place(R)
                  /\ S.room.hostSocket = R.room.hostSocket
                  /\ S.room.hostId = R.room.hostId
                  /\ S.room.meta = R.room.meta ]_vars

\* C13: after the close of a connection that held a profile with client id c, c
\* is a member of no room of either store under any network key, and the host of
\* every room c was a member of has been sent room:member-left for it.
C13_ClosedClientIsMemberOfNoRoom ==
  [][ (IsClose(last') /\ last'.socket \in DOMAIN clients)
        => LET c == clients[last'.socket].clientId IN
           /\ \A S \in RoomsOf(publicRooms', lanRoomsByNetwork') : c \notin S.room.members
           /\ \A R \in RoomsOf(publicRooms, lanRoomsByNetwork) :
                (c \in R.room.members /\ readyState'[R.room.hostSocket] = "OPEN")
                  => Sent(sent', R.room.hostSocket,
                          [type |-> "room:member-left", roomId |-> R.room.key, clientId |-> c])
    ]_vars

\* C14: the host connection of every live room, public or LAN under any network
\* key, is a connection whose close has not been handled (open, or on its way to
\* closed); and the step that handles the close of a connection removes every
\* room it hosts, with or without a profile, member of other rooms or not.
C14_HostsAreOpen ==
  /\ [](\A R \in RoomsOf(publicRooms, lanRoomsByNetwork) :
          readyState[R.room.hostSocket] \in {"OPEN", "CLOSING"})
  /\ [][ IsClose(last')
           => \A S \in RoomsOf(publicRooms', lanRoomsByNetwork') :
                S.room.hostSocket # last'.socket ]_vars

\* C14: a connection that never sent hello and hosted a LAN room with a member
\* has closed, and a room of another host is still live.
C14_Witness ==
  /\ IsClose(last)
  /\ last.socket = 3
  /\ clients = << [clientId |-> "a", nickname |-> "", avatar |-> Undefined,
                   networkKey |-> networkKey[1]] >>
  /\ \A k \in DOMAIN lanRoomsByNetwork : lanRoomsByNetwork[k] = << >>
  /\ Len(publicRooms) = 1
  /\ Sent(sent, 1, RoomClosed(ID_00))

\* C15: a connection whose close has been handled has no profile and no client
\* id of the by-id map resolves to it, whatever hello messages it sent; every
\* by-id entry points to a connection that has not closed.
C15_NoEntryForClosedConnection ==
  \A s \in Sockets :
    readyState[s] = "CLOSED"
      => /\ s \notin DOMAIN clients
         /\ \A c \in DOMAIN clientsById : clientsById[c] # s

\* C16: a hello with a client id makes the by-id map hold its sender under that
\* id; afterwards the entry stays as it is through every step except a later
\* hello with the same id (it then holds that sender) and the close of the very
\* connection it holds, registered under that id (it is then deleted): the close
\* of any other connection, registered under the same id or not, leaves it.
C16_ByIdHoldsLatestHello ==
  [][ /\ (last'.message.type = "hello" /\ last'.message.clientId # Absent)
         => /\ last'.message.clientId \in DOMAIN clientsById'
            /\ clientsById'[last'.message.clientId] = last'.socket
      /\ \A c \in DOMAIN clientsById' :
           \/ c \in DOMAIN clientsById /\ clientsById'[c] = clientsById[c]
           \/ last'.message.type = "hello" /\ last'.message.clientId = c
      /\ \A c \in DOMAIN clientsById :
           \/ c \in DOMAIN clientsById' /\ clientsById'[c] = clientsById[c]
           \/ last'.message.type = "hello" /\ last'.message.clientId = c
           \/ /\ IsClose(last') /\ last'.socket = clientsById[c]
              /\ last'.socket \in DOMAIN clients /\ clients[last'.socket].clientId = c
              /\ c \notin DOMAIN clientsById' ]_vars

\* C16: connection 1 is registered under a, and connection 2 has just sent hello
\* under a as well: the by-id map holds connection 2.
C16_Witness ==
  /\ last.message.type = "hello" /\ last.socket = 2 /\ last.message.clientId = "a"
  /\ 1 \in DOMAIN clients /\ clients[1].clientId = "a"
  /\ readyState[1] = "OPEN"
  /\ clientsById = [c \in {"a"} |-> 2]

\* C18: a client id joins a room's members, and join:approved or join:denied is
\* sent for the pair, only after a join:request for that pair was forwarded to
\* the room's host.  In runs where no connection ever sends a join:request (the
\* joining runs have no such step) this says: every member set stays empty and
\* no join:approved or join:denied is ever sent.
C18_NoApprovalWithoutRequest ==
  /\ \A R \in RoomsOf(publicRooms, lanRoomsByNetwork) : R.room.members = {}
  /\ \A f \in BagToSet(sent) : f.msg.type \notin {"join:approved", "join:denied"}

\* The room a room id resolves to for a connection: the public room of that id
\* if there is one, otherwise the LAN room of that id under the connection's own
\* network key; as a set, empty when there is none.
ResolvedFor(socket, roomId) ==
  LET named == { R \in RoomsOf(publicRooms, lanRoomsByNetwork) : R.room.key = roomId }
      public == { R \in named : R.kind = "public" }
  IN  IF public # {} THEN public ELSE { R \in named : R.networkKey = networkKey[socket] }

\* Nothing but what the handler sent and the event it handled changes.
NoStateChange ==
  UNCHANGED << readyState, remoteAddress, networkKey, clients, clientsById, networkSockets,
               lanRoomsByNetwork, publicRooms, config >>

IsJoinRequest(event) == event.message.type = "join:request"

\* The join:request frame forwarded to a host.
JoinRequestForwarded(message) ==
  [type |-> "join:request", roomId |-> message.roomId, clientId |-> message.clientId,
   nickname |-> str(message.nickname), avatar |-> strOrUndefined(message.avatar),
   password |-> strOrUndefined(message.password), requestId |-> str(message.requestId)]

JoinDeniedNotFound(message) ==
  [type |-> "join:denied", roomId |-> message.roomId, reason |-> "not_found"]

\* C17, as stated: a join:request with a room id and a client id changes no state
\* and produces exactly one frame: the request forwarded to the host of the
\* public room of that id, else to the host of the LAN room of that id under the
\* requester's network key, else join:denied not_found to the requester.
C17_JoinRequestYieldsOneFrame ==
  [][ IsJoinRequest(last')
        => /\ NoStateChange
           /\ sent' = IF ResolvedFor(last'.socket, last'.message.roomId) = {}
                      THEN Only(last'.socket, JoinDeniedNotFound(last'.message))
                      ELSE Only((CHOOSE R \in ResolvedFor(last'.socket, last'.message.roomId) :
                                   TRUE).room.hostSocket,
                                JoinRequestForwarded(last'.message)) ]_vars

\* C17, amended: such a join:request changes no state and is handed to one
\* connection: the host of the public room of that id, else the host of the LAN
\* room of that id under the requester's network key (never a LAN room under
\* another key), else the requester with join:denied not_found.  It produces that
\* one frame when that connection is open and no frame when the host is no
\* longer open; the requester then gets no answer.
C17_JoinRequestYieldsAtMostOneFrame ==
  [][ IsJoinRequest(last')
        => LET resolved == ResolvedFor(last'.socket, last'.message.roomId) IN
           /\ NoStateChange
           /\ sent' = IF resolved = {}
                      THEN Only(last'.socket, JoinDeniedNotFound(last'.message))
                      ELSE LET host == (CHOOSE R \in resolved : TRUE).room.hostSocket IN
                           IF readyState[host] = "OPEN"
                           THEN Only(host, JoinRequestForwarded(last'.message))
                           ELSE EmptyBag ]_vars

\* C17: connection 3 asked for a room id that only a LAN room of the other
\* network has, and was told not_found.
C17_Witness ==
  /\ IsJoinRequest(last) /\ last.socket = 3
  /\ sent = Only(3, JoinDeniedNotFound(last.message))
  /\ publicRooms = << >>
  /\ \E R \in RoomsOf(publicRooms, lanRoomsByNetwork) :
       R.room.key = last.message.roomId /\ R.networkKey # networkKey[3]

IsClientMessage(event) == event.message.type = "client:message"

\* The client:message frame handed to a host for a sender.
ClientMessageForwarded(socket, message) ==
  [type |-> "client:message", roomId |-> message.roomId,
   clientId |-> clients[socket].clientId, payload |-> message.payload]

\* C19, as stated: no client:message changes any state; one for a room id that
\* resolves, from a connection with a profile, is delivered to that room's host
\* connection and to no other, with the sender's registered client id whatever
\* clientId the frame carries; from a connection without a profile, or for a room
\* id that does not resolve, nothing is delivered.
C19_ClientMessageReachesHost ==
  [][ IsClientMessage(last')
        => LET resolved == ResolvedFor(last'.socket, last'.message.roomId) IN
           /\ NoStateChange
           /\ sent' = IF resolved # {} /\ last'.socket \in DOMAIN clients
                      THEN Only((CHOOSE R \in resolved : TRUE).room.hostSocket,
                                ClientMessageForwarded(last'.socket, last'.message))
                      ELSE EmptyBag ]_vars

\* C19, amended: the same, except that the frame is delivered only while the
\* host connection is open: when the host is no longer open (its close not yet
\* handled) nothing is delivered to anyone.
C19_ClientMessageReachesOpenHost ==
  [][ IsClientMessage(last')
        => LET resolved == ResolvedFor(last'.socket, last'.message.roomId)
               host == (CHOOSE R \in resolved : TRUE).room.hostSocket
           IN
           /\ NoStateChange
           /\ sent' = IF resolved # {} /\ last'.socket \in DOMAIN clients
                         /\ readyState[host] = "OPEN"
                      THEN Only(host, ClientMessageForwarded(last'.socket, last'.message))
                      ELSE EmptyBag ]_vars

\* C19: connection 2, registered as b, sent a client:message carrying clientId a
\* for a public room, and its host got it with clientId b.
C19_Witness ==
  /\ IsClientMessage(last) /\ last.socket = 2 /\ last.message.clientId = "a"
  /\ 2 \in DOMAIN clients /\ clients[2].clientId = "b"
  /\ Len(publicRooms) = 1
  /\ sent = Only(1, [type |-> "client:message", roomId |-> ID_00, clientId |-> "b",
                     payload |-> "payload"])

IsRoomMessage(event) == event.message.type = "room:message"

\* C20: a room:message with a targetId from the host of the room it names is
\* delivered to nobody when the targetId is not in the room's member set or has
\* no registered connection, and otherwise only to the connection registered
\* under the targetId.
C20_TargetedMessageReachesMembersOnly ==
  [][ (IsRoomMessage(last') /\ last'.message.targetId # Absent)
        => \A R \in ResolvedFor(last'.socket, last'.message.roomId) :
             R.room.hostSocket = last'.socket
               => LET t == last'.message.targetId IN
                  IF t \in R.room.members /\ t \in DOMAIN clientsById
                  THEN \A f \in BagToSet(sent') : f.to = clientsById[t]
                  ELSE sent' = EmptyBag ]_vars

\* The room:message frame handed to a member's connection.
RoomMessageOut(message) ==
  [type |-> "room:message", roomId |-> message.roomId, payload |-> message.payload]

\* The frames a handler sent are exactly one copy of frame per client id of ids
\* to the connection registered under it, counting only the connections in to.
OncePerId(bag, ids, to, frame) ==
  /\ \A f \in BagToSet(bag) : f.msg = frame
  /\ \A t \in Sockets :
       CopiesIn([to |-> t, msg |-> frame], bag)
         = IF t \in to
           THEN Cardinality({ m \in ids : m \in DOMAIN clientsById /\ clientsById[m] = t })
           ELSE 0

\* C21, as stated: a room:message without targetId from the host connection of
\* a room reaches the connections registered under that room's member ids, once
\* per member id, and nobody else; one from a connection that hosts no room of
\* that id reaches nobody.
C21_BroadcastReachesRegisteredMembers ==
  [][ (IsRoomMessage(last') /\ last'.message.targetId = Absent)
        => /\ \A R \in HostedAndNamed(last') :
                OncePerId(sent', R.room.members, Sockets, RoomMessageOut(last'.message))
           /\ HostedAndNamed(last') = {} => sent' = EmptyBag ]_vars

\* C21, amended: a room:message without targetId (or with an empty one) names
\* the room its id resolves to, the public room of that id before the LAN room
\* of the sender's network.  From that room's host connection it reaches the
\* open connections registered under that room's member ids, once per member id,
\* and nobody else; a registered connection that is no longer open gets nothing.
\* From any other connection, the host of a LAN room of the same id included, it
\* reaches nobody.  No state changes.
C21_BroadcastReachesOpenMembersOfResolvedRoom ==
  [][ (IsRoomMessage(last') /\ last'.message.targetId \in {Absent, ""})
        => LET resolved == ResolvedFor(last'.socket, last'.message.roomId)
               room == (CHOOSE R \in resolved : TRUE).room
           IN
           /\ NoStateChange
           /\ IF resolved # {} /\ room.hostSocket = last'.socket
              THEN OncePerId(sent', room.members, OpenSockets, RoomMessageOut(last'.message))
              ELSE sent' = EmptyBag ]_vars

\* C21: the host of a room with members a and b broadcast a room:message; one
\* member's connection is open and got it, the other's is no longer open.
C21_Witness ==
  /\ IsRoomMessage(last) /\ last.message.targetId = Absent
  /\ \E R \in HostedAndNamed(last) : R.room.members = {"a", "b"}
  /\ \E t \in OpenSockets : sent = Only(t, RoomMessageOut(last.message))
  /\ readyState[3] = "CLOSING" /\ 3 \in DOMAIN clients
  /\ \E c \in DOMAIN clientsById : clientsById[c] = 3

\* The last event is a profile:update.
IsProfileUpdate(event) == event.message.type = "profile:update"

\* C22: a profile:update changes nothing but the nickname and the avatar of the
\* sender's own profile, and only when the clientId it carries is that profile's
\* clientId; otherwise the whole state is unchanged.  It never changes the
\* clientId or networkKey of a profile, the by-id map, the profile of another
\* connection, the set of registered connections or any room.
C22_ProfileUpdateTouchesOwnNameOnly ==
  [][ IsProfileUpdate(last')
        => /\ UNCHANGED << readyState, remoteAddress, networkKey, clientsById, networkSockets,
                           lanRoomsByNetwork, publicRooms, config >>
           /\ DOMAIN clients' = DOMAIN clients
           /\ \A s \in DOMAIN clients :
                /\ clients'[s].clientId = clients[s].clientId
                /\ clients'[s].networkKey = clients[s].networkKey
                /\ s # last'.socket => clients'[s] = clients[s]
           /\ ~(/\ last'.socket \in DOMAIN clients
                /\ last'.message.clientId = clients[last'.socket].clientId)
                => clients' = clients ]_vars

\* C22: connection 2, registered as b without a name beside connection 1
\* registered as a, with a LAN room live, has just sent a profile:update under
\* its own id and now has the nickname and avatar it carried.
C22_Witness ==
  /\ IsProfileUpdate(last) /\ last.socket = 2 /\ last.message.clientId = "b"
  /\ last.message.nickname = "nick"
  /\ 2 \in DOMAIN clients /\ clients[2].clientId = "b"
  /\ clients[2].nickname = "nick" /\ clients[2].avatar = "av"
  /\ 1 \in DOMAIN clients /\ clients[1].clientId = "a" /\ clients[1].nickname # "nick"
  /\ RoomsOf(publicRooms, lanRoomsByNetwork) # {}

\* The last event is a frame no handler takes.
IsOtherFrame(event) == event.message \in OtherFrames

\* C23: a frame that is not parseable JSON, has no string type or has a type no
\* handler takes leaves the registry, both room stores and the network groups
\* unchanged, sends nothing, and leaves its sender open and registered as it was.
C23_OtherFrameChangesNothing ==
  [][ IsOtherFrame(last')
        => /\ NoStateChange
           /\ sent' = EmptyBag
           /\ readyState'[last'.socket] = "OPEN"
           /\ last'.socket \in networkSockets'[networkKey'[last'.socket]]
           /\ last'.socket \in DOMAIN clients => last'.socket \in DOMAIN clients' ]_vars

\* C23: connection 1, registered as a and host of a LAN room, has just sent a
\* frame of an unknown type; it is still open, registered and the host.
C23_Witness ==
  /\ last.message = [type |-> "room:kick"] /\ last.socket = 1
  /\ readyState[1] = "OPEN"
  /\ 1 \in DOMAIN clients /\ clientsById = [c \in {"a"} |-> 1]
  /\ RoomsOf(publicRooms, lanRoomsByNetwork) # {}
  /\ sent = EmptyBag

\* C24: a join:deny, room:message, room:close or share:remove naming a room id,
\* received on a connection that hosts no live room of that id, leaves all state
\* unchanged and sends nothing.
C24_NonHostCommandsDoNothing ==
  [][ (/\ last'.message.type \in {"join:deny", "room:message", "room:close", "share:remove"}
       /\ HostedAndNamed(last') = {})
        => NoStateChange /\ sent' = EmptyBag ]_vars

\* C24: connection 3, registered as b and a member of the public room of
\* connection 1, has just sent room:close for it; the room is live with its
\* members and nothing was sent.
C24_Witness ==
  /\ last.message.type = "room:close" /\ last.socket = 3 /\ last.message.roomId = ID_00
  /\ 3 \in DOMAIN clients /\ clients[3].clientId = "b"
  /\ "b" \in DOMAIN clientsById /\ clientsById["b"] = 3
  /\ mapHas(publicRooms, ID_00)
  /\ mapGet(publicRooms, ID_00).hostSocket = 1
  /\ "b" \in mapGet(publicRooms, ID_00).members
  /\ sent = EmptyBag

\* The public room of id roomId is live after the step and is not a new room put
\* in its place by a room:create.
PublicRoomKept(roomId) ==
  /\ mapHas(publicRooms', roomId)
  /\ ~ (Admitted(last', sent') /\ last'.draw.roomId = roomId)

\* The step handles the close of socket or a room:close naming roomId from it.
HostEnds(socket, roomId) ==
  /\ last'.socket = socket
  /\ \/ IsClose(last')
     \/ last'.message.type = "room:close" /\ last'.message.roomId = roomId

C26_OnlyHostOrSelfRemovesMember ==
  [][ \A R \in RoomsOf(publicRooms, lanRoomsByNetwork) : \A c \in R.room.members :
        (/\ last' # Idle /\ ~ IsClose(last')
         /\ last'.socket # R.room.hostSocket
         /\ ~ (last'.socket \in DOMAIN clients /\ clients[last'.socket].clientId = c)
         /\ ~ (c \in DOMAIN clientsById /\ clientsById[c] = last'.socket))
          => \E Q \in RoomsOf(publicRooms', lanRoomsByNetwork') :
               Place(Q) = Place(R) /\ c \in Q.room.members ]_vars

\* The last event is the arrival of a connection.
IsConnection(event) == event.message.type = "connection"

\* The first three octets of a dotted quad, joined by dots.
ThreeOctets(a, b, c) == a \o << "." >> \o b \o << "." >> \o c

\* C27: the network key of a dotted-quad IPv4 address, plain or IPv4-mapped, is
\* its first three octets joined by dots, as a function of the address and as
\* the key the connection is grouped under; two connections from such addresses
\* have the same key, and are in the same network group, exactly when the first
\* three octets are equal.
C27_KeyIsFirstThreeOctets ==
  /\ \A a \in Octets, b \in Octets, c \in Octets, d \in Octets :
       (/\ IsConnection(last)
        /\ last.message.address \in { dottedQuad(a, b, c, d),
                                      V4_MAPPED_PREFIX \o dottedQuad(a, b, c, d) })
         => /\ networkKeyFromAddress(last.message.address) = ThreeOctets(a, b, c)
            /\ remoteAddress[last.socket] = dottedQuad(a, b, c, d)
            /\ networkKey[last.socket] = ThreeOctets(a, b, c)
            /\ last.socket \in networkSockets[ThreeOctets(a, b, c)]
  /\ \A s \in OpenSockets, t \in OpenSockets :
       (remoteAddress[s] \in DottedQuads /\ remoteAddress[t] \in DottedQuads)
         => /\ networkKey[s] = networkKey[t]
                 <=> \E a \in Octets, b \in Octets, c \in Octets :
                       \E d \in Octets, e \in Octets :
                         /\ remoteAddress[s] = dottedQuad(a, b, c, d)
                         /\ remoteAddress[t] = dottedQuad(a, b, c, e)
            /\ networkKey[s] = networkKey[t]
                 <=> \E k \in DOMAIN networkSockets : {s, t} \subseteq networkSockets[k]

\* C27: connection 1 came from 10.0.7.0 and connection 2 has just arrived from
\* ::ffff:10.0.7.10; both are in the group of the key 10.0.7.
C27_Witness ==
  /\ IsConnection(last) /\ last.socket = 2
  /\ last.message.address
       = V4_MAPPED_PREFIX \o dottedQuad(<< "1", "0" >>, << "0" >>, << "7" >>, << "1", "0" >>)
  /\ remoteAddress[1] = dottedQuad(<< "1", "0" >>, << "0" >>, << "7" >>, << "0" >>)
  /\ networkKey[1] = << "1", "0", ".", "0", ".", "7" >>
  /\ networkSockets = [k \in { << "1", "0", ".", "0", ".", "7" >> } |-> {1, 2}]

\* C28: the network key of no address and of an address that is neither four
\* dotted segments nor colon-separated is "unknown", and the connection is put
\* in the network group of that key.
C28_OtherAddressesAreUnknown ==
  (IsConnection(last) /\ last.message.address \in OtherAddresses)
    => /\ networkKeyFromAddress(last.message.address) = UNKNOWN
       /\ networkKey[last.socket] = UNKNOWN
       /\ UNKNOWN \in DOMAIN networkSockets
       /\ last.socket \in networkSockets[UNKNOWN]

\* The last event is a share:announce carrying a room id and a host id.
IsShareAnnounce(event) ==
  /\ event.message.type = "share:announce"
  /\ event.message.roomId # << >> /\ event.message.hostId # Absent

\* The share:list frame of the LAN rooms lan holds under key.
ShareListOf(lan, key) ==
  [type |-> "share:list", shares |-> [i \in 1..Len(lan[key]) |-> lan[key][i].meta]]

\* C29: a share:announce (with a room id and a host id) for a room already
\* announced under the sender's network key keeps exactly the member set that
\* room had; after every such share:announce each open connection of the
\* announcer's network group, and no other, has been sent one share:list, equal
\* to the complete LAN list of that key as it now is.
C29_AnnounceKeepsMembersAndListsAll ==
  [][ IsShareAnnounce(last')
        => LET key == networkKey[last'.socket]
               roomId == last'.message.roomId
               before == { R \in RoomsOf(publicRooms, lanRoomsByNetwork) :
                             R.kind = "lan" /\ R.networkKey = key /\ R.room.key = roomId }
               after == { R \in RoomsOf(publicRooms', lanRoomsByNetwork') :
                            R.kind = "lan" /\ R.networkKey = key /\ R.room.key = roomId }
           IN
           /\ Cardinality(after) = 1
           /\ \A R \in before : \A Q \in after : Q.room.members = R.room.members
           /\ \A f \in BagToSet(sent') : f.msg = ShareListOf(lanRoomsByNetwork', key)
           /\ \A t \in Sockets :
                CopiesIn([to |-> t, msg |-> ShareListOf(lanRoomsByNetwork', key)], sent')
                  = IF t \in networkSockets[key] /\ readyState[t] = "OPEN" THEN 1 ELSE 0 ]_vars

\* C29: connection 1 has just announced room 00 again, which had the member a,
\* beside room 01: the room still has the member a, connections 1 and 2 got the
\* list of both rooms, and connection 3, open on the other network, got nothing.
C29_Witness ==
  /\ IsShareAnnounce(last) /\ last.socket = 1 /\ last.message.roomId = ID_00
  /\ Len(lanRoomsByNetwork[networkKey[1]]) = 2
  /\ \E R \in RoomsOf(publicRooms, lanRoomsByNetwork) :
       /\ R.kind = "lan" /\ R.networkKey = networkKey[1] /\ R.room.key = ID_00
       /\ R.room.members = {"a"} /\ R.room.hostSocket = 1
  /\ Sent(sent, 1, ShareListOf(lanRoomsByNetwork, networkKey[1]))
  /\ Sent(sent, 2, ShareListOf(lanRoomsByNetwork, networkKey[1]))
  /\ readyState[3] = "OPEN" /\ BagCardinality(sent) = 2

\* The last event is a room:close.
IsRoomClose(event) == event.message.type = "room:close"

\* The places of the live rooms after the step.
PlacesAfter == { Place(Q) : Q \in RoomsOf(publicRooms', lanRoomsByNetwork') }

\* C30, as stated: a room:close naming a live room, public or LAN, received on
\* that room's host connection takes the room out of its store, also when a
\* public room and a LAN room have the same id.
C30_HostCloseDestroysNamedRoom ==
  [][ IsRoomClose(last')
        => \A R \in HostedAndNamed(last') : Place(R) \notin PlacesAfter ]_vars

\* C30, amended: a room:close names the room its id resolves to, the public room
\* of that id before the LAN room of the sender's network.  Received on that
\* room's host connection it destroys exactly that room: the room leaves its
\* store and every other room, a LAN room of the same id included, stays as it
\* was; every member id with a registered open connection is sent
\* room:closed once; for a LAN room every open connection of its network group
\* is sent one share:list, without the room; nothing else is sent.  Received on
\* any other connection, the host of a shadowed LAN room included, it changes
\* nothing.  A later join:request for an id that resolves to no room from the
\* requester's network is answered not_found.
C30_HostCloseDestroysResolvedRoom ==
  [][ /\ IsRoomClose(last')
         => LET s == last'.socket
                roomId == last'.message.roomId
                resolved == ResolvedFor(s, roomId)
                R == CHOOSE X \in resolved : TRUE
                key == networkKey[s]
                closed == RoomClosed(roomId)
                isLan == R.kind = "lan"
                list == IF key \in DOMAIN lanRoomsByNetwork'
                        THEN ShareListOf(lanRoomsByNetwork', key) ELSE closed
            IN
            IF resolved # {} /\ R.room.hostSocket = s
            THEN /\ Place(R) \notin PlacesAfter
                 /\ RoomsOf(publicRooms', lanRoomsByNetwork')
                      = RoomsOf(publicRooms, lanRoomsByNetwork) \ {R}
                 /\ UNCHANGED << clients, clientsById, networkSockets, readyState >>
                 /\ \A f \in BagToSet(sent') : f.msg = closed \/ (isLan /\ f.msg = list)
                 /\ \A t \in Sockets :
                      /\ CopiesIn([to |-> t, msg |-> closed], sent')
                           = IF t \in OpenSockets
                             THEN Cardinality({ m \in R.room.members :
                                                  m \in DOMAIN clientsById /\ clientsById[m] = t })
                             ELSE 0
                      /\ isLan => CopiesIn([to |-> t, msg |-> list], sent')
                                    = IF t \in networkSockets[key] \cap OpenSockets THEN 1 ELSE 0
            ELSE NoStateChange /\ sent' = EmptyBag
      /\ (IsJoinRequest(last') /\ ResolvedFor(last'.socket, last'.message.roomId) = {})
            => sent' = Only(last'.socket, JoinDeniedNotFound(last'.message)) ]_vars

\* C30: connection 1, host of a public room and of a LAN room of one id, has
\* just sent room:close for the id: the public room is gone, both of its members
\* were sent room:closed, and the LAN room is still announced.
C30_Witness ==
  /\ IsRoomClose(last) /\ last.socket = 1 /\ last.message.roomId = ID_00
  /\ publicRooms = << >>
  /\ Sent(sent, 2, RoomClosed(ID_00)) /\ Sent(sent, 3, RoomClosed(ID_00))
  /\ BagCardinality(sent) = 2
  /\ \E R \in RoomsOf(publicRooms, lanRoomsByNetwork) :
       R.kind = "lan" /\ R.room.key = ID_00 /\ R.room.hostSocket = 1

\* The listings of the LAN rooms stored under key before or after the step.
LanMetasAround(key) ==
  { R.room.meta : R \in { X \in RoomsOf(<< >>, lanRoomsByNetwork)
                                  \cup RoomsOf(<< >>, lanRoomsByNetwork') :
                            X.networkKey = key } }

\* The listings of the LAN rooms stored under another key than key, and of the
\* public rooms, before or after the step.
MetasElsewhereAround(key) ==
  { R.room.meta : R \in { X \in RoomsOf(publicRooms, lanRoomsByNetwork)
                                  \cup RoomsOf(publicRooms', lanRoomsByNetwork') :
                            X.kind = "public" \/ X.networkKey # key } }

\* C31: every share:list delivered to a connection, on hello, on share:announce
\* and on the removal of a LAN room, lists only LAN rooms stored under that
\* connection's own network key: no entry is the listing of a LAN room of
\* another network key or of a public room.
C31_ShareListOfOwnNetworkOnly ==
  [][ \A f \in BagToSet(sent') :
        f.msg.type = "share:list"
          => \A i \in 1..Len(f.msg.shares) :
               /\ f.msg.shares[i] \in LanMetasAround(networkKey'[f.to])
               /\ f.msg.shares[i] \notin MetasElsewhereAround(networkKey'[f.to]) ]_vars

\* C31: connection 2 has just sent hello and got the list of the one LAN room
\* of its network, while another network has a LAN room of the same id and a
\* public room is live.
C31_Witness ==
  /\ last.message.type = "hello" /\ last.socket = 2
  /\ publicRooms # << >>
  /\ networkKey[3] # networkKey[2]
  /\ networkKey[3] \in DOMAIN lanRoomsByNetwork /\ Len(lanRoomsByNetwork[networkKey[3]]) = 1
  /\ networkKey[2] \in DOMAIN lanRoomsByNetwork /\ Len(lanRoomsByNetwork[networkKey[2]]) = 1
  /\ sent = Only(2, ShareListOf(lanRoomsByNetwork, networkKey[2]))

\* The connections that have arrived and whose close has not been handled.
Connected == { s \in Sockets : readyState[s] \in {"OPEN", "CLOSING"} }

\* C32: in every reachable state each stored network group is non-empty and
\* holds exactly the connections that have arrived, and whose close has not
\* been handled, with the network key derived from their address equal to the
\* group's key; so a connection is in its group from its arrival, before any
\* hello, until its close, and a group left empty is deleted.
C32_GroupsHoldConnectedSockets ==
  /\ \A k \in DOMAIN networkSockets :
       /\ networkSockets[k] # {}
       /\ networkSockets[k] = { s \in Connected : networkKey[s] = k }
  /\ \A s \in Connected :
       /\ networkKey[s] = networkKeyFromAddress(remoteAddress[s])
       /\ networkKey[s] \in DOMAIN networkSockets

\* C32: connections 1 and 2 arrived from one network and sent no hello,
\* connection 2 is on its way to closed, and connection 3, the only one of its
\* network, has closed: one group is stored, holding 1 and 2.
C32_Witness ==
  /\ readyState[1] = "OPEN" /\ readyState[2] = "CLOSING" /\ readyState[3] = "CLOSED"
  /\ clients = << >>
  /\ networkKey[3] # networkKey[1]
  /\ DOMAIN networkSockets = { networkKey[1] }
  /\ networkSockets[networkKey[1]] = {1, 2}

====
